---- MODULE Spec2Model ----
(***************************************************************************)
(* Model of the file-backed data store of the kitchen-ops application:     *)
(*   common/locking.py     FileLock (sentinel file, O_EXCL, poll, timeout)  *)
(*   common/db.py          read_table / write_table / append_table          *)
(*   common/team_state.py  shared workspace document                        *)
(*   pages/upload_catalogs.py, pages/1_..._Upload_Catalogs.py  catalog merge*)
(*                                                                         *)
(*   common/db.py          snapshot / latest_file; data_layer.py writers   *)
(*                                                                         *)
(* The specifications share the variables:                                 *)
(*   Spec        the table store under concurrent sessions and crashes     *)
(*   SpecWs      the workspace document under concurrent sessions          *)
(*   SpecWsAny   the same, the document possibly corrupt at the start      *)
(*   SpecWsSolo  the workspace document used by one session                *)
(*   SpecCat, SpecCommit  the catalog merge, one upload after another      *)
(*   SpecSnap    snapshot() under concurrent sessions                      *)
(*   SpecSnapAll the same, with the pages that write files directly        *)
(*   SpecLock, SpecLockFair  FileLock instances of one path                *)
(*   SpecSlug, SpecNormalize slugify / the workspace name normalisers      *)
(*   SpecMerge   the catalog merge as a function of catalog and upload     *)
(*   SpecRead    read_table as a function of the bytes of the file         *)
(*   SpecResolve _resolve as a function of the logical table name          *)
(***************************************************************************)
EXTENDS Integers, Sequences, FiniteSets, TLC

VARIABLES
    fs,        \* table store files: "csv" (the table), "tmp", "lock"
    pc,        \* per execution context: position inside the current call
    op,        \* per context: the running call ("write", "append", "read")
    frame,     \* per context: DataFrame the call is going to persist
    pre,       \* per context: table content seen when the lock was taken
    cache,     \* per process: st.cache_data entry of read_table(path)
    val,       \* per context: value read_table computed / returned
    need,      \* per context: a read: newest acknowledged version when it began;
               \*   a write: the version its rename produced
    acked,     \* per process: newest version a returned write produced
    ver,       \* version of the table file: number of renames so far
    started,   \* number of write_table / append_table calls begun
    log,       \* rows the committed table must hold, in commit order
    wsFs,      \* workspace files: "json" (document), "tmp", "lock"
    wsPc,      \* per session: position inside the workspace call
    wsStore,   \* per session: the store dict held in memory
    wsArg,     \* per session: (name, payload) of the running call
    wsCalls,   \* number of workspace calls begun
    wsPrev,    \* a session working alone: the call that returned last
    catFile,   \* persisted vendor catalog (CSV text rows)
    catLatest, \* last merge: (key, latest day) over existing and accepted rows
    catAgain,  \* the catalog as saving the last upload once more leaves it
    uploads,   \* number of merges done
    clock,     \* wall clock, in whole seconds
    snapFs,    \* per file name: its "csv" file, its "tmp" and "lock" siblings
    snapMtime, \* per file name and sibling: st_mtime (0 when absent)
    snapPc,    \* per session: position inside snapshot() or a direct writer
    snapArg,   \* per session: file name and DataFrame of the running call
    snapHist,  \* calls begun, snapshot() calls returned, the path the last
               \*   one returned, the path the last one begun chose, and
               \*   whether no two calls have overlapped so far
    lkFs,      \* FileLock instances of one path: the sentinel file "lock"
    lkFd,      \* per instance: self._fd is not None (is_locked)
    lkPc,      \* per instance: position inside acquire()
    lkDeadline,\* per instance: deadline of the running acquire()
    lkRaised,  \* per instance: its last acquire() raised Timeout
    lkNow,     \* time.monotonic(), in poll intervals
    pureArg,   \* argument a function is called with
    pureRes    \* what the call returned (done is FALSE before the call)

tableVars == <<fs, pc, op, frame, pre, cache, val, need, acked, ver, started, log>>
wsVars    == <<wsFs, wsPc, wsStore, wsArg, wsCalls, wsPrev>>
catVars   == <<catFile, catLatest, catAgain, uploads>>
snapVars  == <<clock, snapFs, snapMtime, snapPc, snapArg, snapHist>>
lkVars    == <<lkFs, lkFd, lkPc, lkDeadline, lkRaised, lkNow>>
pureVars  == <<pureArg, pureRes>>
vars      == <<tableVars, wsVars, catVars, snapVars, lkVars, pureVars>>

----------------------------------------------------------------------------
(* Bounds of the model *)

\* write_table / append_table calls begun in one behaviour
MaxCommits == 2

\* workspace calls begun in one behaviour
MaxWsCalls == 3

\* Execution contexts: 1 and 2 are two sessions (threads) of one Streamlit
\* process, 3 is a session of another process on the same filesystem.
Ctxs == {1, 2, 3}
ProcOf(c) == IF c <= 2 THEN 1 ELSE 2
Procs == {ProcOf(c) : c \in Ctxs}

\* The scenario: session 1 writes, session 2 (same process) reads, session 3
\* (the other process) does both.
Writers == {1, 3}
Readers == {2, 3}

\* A path of the filesystem: absent, or a file holding rows
NoFile == [exists |-> FALSE, rows |-> <<>>]
File(rows) == [exists |-> TRUE, rows |-> rows]

\* A st.cache_data slot: empty, or the cached table and (ghost) its version
NoVal == [has |-> FALSE, rows |-> <<>>, ver |-> 0]
Val(rows, v) == [has |-> TRUE, rows |-> rows, ver |-> v]

----------------------------------------------------------------------------
(* common/db.py and common/locking.py *)

\* db._lock_for: the sentinel guarding a table
lock_path(target) == "lock"

\* db._atomic_write, line 118: the sibling temporary file
temp_path_inplace(target) == target
temp_path(target) == "tmp"

\* FileLock.acquire, line 78: os.open(O_CREAT | O_EXCL) succeeds only when
\* the sentinel does not exist
CanCreate_NoExcl(f, target) == TRUE
CanCreate(f, target) == ~f[lock_path(target)].exists

\* FileLock.acquire, lines 81-83: on timeout the exception leaves acquire;
\* __enter__ raised, so __exit__ / release is not run
OnAcquireTimeout_Release(f, target) == [f EXCEPT ![lock_path(target)] = NoFile]
OnAcquireTimeout(f, target) == f

\* FileLock.release, lines 86-96: unlink the sentinel, missing is fine
release_Keep(f, target) == f
release(f, target) == [f EXCEPT ![lock_path(target)] = NoFile]

\* Path.replace (rename) of db._atomic_write, line 120
Replace(f, src, dst) ==
    IF src = dst THEN f ELSE [f EXCEPT ![dst] = f[src], ![src] = NoFile]

\* append_table, lines 152-155: existing rows first, only when the file
\* exists and holds rows
Concat_Overwrite(existing, rows) == rows
Concat(existing, rows) ==
    IF existing.exists /\ existing.rows # <<>> THEN existing.rows \o rows ELSE rows

\* read_table body, lines 127-133: a missing file reads as an empty table
ReadCsvRows(f, target) == IF f[target].exists THEN f[target].rows ELSE <<>>

\* DataFrames a session passes to write_table / rows it passes to append_table
WriteFrames(c) == {<<c, c>>}
AppendRows(c) == <<c>>

InCall == {"acquire", "a_read", "serialise", "writing", "release", "unwind", "clear"}
InCS   == {"a_read", "serialise", "writing", "release", "unwind"}

\* The table before the first call: never written, written empty, or
\* holding a row of an earlier run
InitialTables == {NoFile, File(<<>>), File(<<0>>)}

TableInit(tables) ==
    /\ fs \in {[csv |-> t, tmp |-> NoFile, lock |-> NoFile] : t \in tables}
    /\ pc = [c \in Ctxs |-> "idle"]
    /\ op = [c \in Ctxs |-> "none"]
    /\ frame = [c \in Ctxs |-> <<>>]
    /\ pre = [c \in Ctxs |-> NoFile]
    /\ cache = [p \in Procs |-> NoVal]
    /\ val = [c \in Ctxs |-> NoVal]
    /\ need = [c \in Ctxs |-> 0]
    /\ acked = [p \in Procs |-> 0]
    /\ ver = 0
    /\ started = 0
    /\ log = ReadCsvRows(fs, "csv")

\* write_table, lines 139-140: the call begins; next it takes the lock
CallWrite(c) ==
    /\ pc[c] = "idle"
    /\ started < MaxCommits
    /\ \E df \in WriteFrames(c) : frame' = [frame EXCEPT ![c] = df]
    /\ op' = [op EXCEPT ![c] = "write"]
    /\ pc' = [pc EXCEPT ![c] = "acquire"]
    /\ started' = started + 1
    /\ UNCHANGED <<fs, pre, cache, val, need, acked, ver, log>>

\* append_table, lines 149-151 (log_exception, line 336, appends one row)
CallAppend(c) ==
    /\ pc[c] = "idle"
    /\ started < MaxCommits
    /\ frame' = [frame EXCEPT ![c] = AppendRows(c)]
    /\ op' = [op EXCEPT ![c] = "append"]
    /\ pc' = [pc EXCEPT ![c] = "acquire"]
    /\ started' = started + 1
    /\ UNCHANGED <<fs, pre, cache, val, need, acked, ver, log>>

\* FileLock.acquire, lines 76-80: create the sentinel and write the pid
Acquire(c) ==
    /\ pc[c] = "acquire"
    /\ CanCreate(fs, "csv")
    /\ fs' = [fs EXCEPT ![lock_path("csv")] = File(<<c>>)]
    /\ pre' = [pre EXCEPT ![c] = fs["csv"]]
    /\ pc' = [pc EXCEPT ![c] = IF op[c] = "append" THEN "a_read" ELSE "serialise"]
    /\ UNCHANGED <<op, frame, cache, val, need, acked, ver, started, log>>

\* FileLock.acquire, lines 81-84 and db._locked, lines 107-108: the sentinel
\* exists and the deadline has passed; Timeout reaches the caller.  (While the
\* deadline has not passed the context sleeps and retries: no state change.)
AcquireTimeout(c) ==
    /\ pc[c] = "acquire"
    /\ fs[lock_path("csv")].exists
    /\ fs' = OnAcquireTimeout(fs, "csv")
    /\ pc' = [pc EXCEPT ![c] = "timeout"]
    /\ UNCHANGED <<op, frame, pre, cache, val, need, acked, ver, started, log>>

\* append_table, lines 152-155: read the existing rows inside the lock
AppendRead(c) ==
    /\ pc[c] = "a_read"
    /\ frame' = [frame EXCEPT ![c] = Concat(fs["csv"], frame[c])]
    /\ pc' = [pc EXCEPT ![c] = "serialise"]
    /\ UNCHANGED <<fs, op, pre, cache, val, need, acked, ver, started, log>>

\* _atomic_write, line 119: to_csv opens (truncates) the temporary file
OpenTemp(c) ==
    /\ pc[c] = "serialise"
    /\ fs' = [fs EXCEPT ![temp_path("csv")] = File(<<>>)]
    /\ pc' = [pc EXCEPT ![c] = "writing"]
    /\ UNCHANGED <<op, frame, pre, cache, val, need, acked, ver, started, log>>

\* _atomic_write, line 119: to_csv writes the next row
WriteRow(c) ==
    /\ pc[c] = "writing"
    /\ fs[temp_path("csv")].exists
    /\ Len(fs[temp_path("csv")].rows) < Len(frame[c])
    /\ fs' = [fs EXCEPT ![temp_path("csv")] =
                 File(Append(@.rows, frame[c][Len(@.rows) + 1]))]
    /\ UNCHANGED <<pc, op, frame, pre, cache, val, need, acked, ver, started, log>>

\* _atomic_write, line 119: to_csv raises (disk full, unserialisable cell);
\* the exception propagates out of the with block
SerialiseError(c) ==
    /\ pc[c] \in {"serialise", "writing"}
    /\ pc' = [pc EXCEPT ![c] = "unwind"]
    /\ UNCHANGED <<fs, op, frame, pre, cache, val, need, acked, ver, started, log>>

\* _atomic_write, line 120: rename the temporary file over the target
Rename(c) ==
    /\ pc[c] = "writing"
    /\ fs[temp_path("csv")].exists
    /\ Len(fs[temp_path("csv")].rows) >= Len(frame[c])
    /\ fs' = Replace(fs, temp_path("csv"), "csv")
    /\ ver' = ver + 1
    /\ need' = [need EXCEPT ![c] = ver + 1]
    /\ log' = IF op[c] = "append" THEN log \o AppendRows(c) ELSE frame[c]
    /\ pc' = [pc EXCEPT ![c] = "release"]
    /\ UNCHANGED <<op, frame, pre, cache, val, acked, started>>

\* FileLock.__exit__ -> release, lines 86-96 and 102-103, on normal exit
\* ("release") and while an exception propagates ("unwind")
Release(c) ==
    /\ pc[c] \in {"release", "unwind"}
    /\ fs' = release(fs, "csv")
    /\ pc' = [pc EXCEPT ![c] = IF pc[c] = "release" THEN "clear" ELSE "failed"]
    /\ UNCHANGED <<op, frame, pre, cache, val, need, acked, ver, started, log>>

\* write_table lines 142-143 / append_table lines 157-158:
\* utils.clear_data_caches() (st.cache_data.clear()), then return the path
ClearCaches(c) ==
    /\ pc[c] = "clear"
    /\ cache' = [cache EXCEPT ![ProcOf(c)] = NoVal]
    /\ acked' = [acked EXCEPT ![ProcOf(c)] = IF need[c] > @ THEN need[c] ELSE @]
    /\ need' = [need EXCEPT ![c] = 0]
    /\ pc' = [pc EXCEPT ![c] = "idle"]
    /\ op' = [op EXCEPT ![c] = "none"]
    /\ frame' = [frame EXCEPT ![c] = <<>>]
    /\ pre' = [pre EXCEPT ![c] = NoFile]
    /\ UNCHANGED <<fs, val, ver, started, log>>

\* The caller has seen the exception (Timeout or the serialisation error)
Raised(c) ==
    /\ pc[c] \in {"timeout", "failed"}
    /\ pc' = [pc EXCEPT ![c] = "idle"]
    /\ op' = [op EXCEPT ![c] = "none"]
    /\ frame' = [frame EXCEPT ![c] = <<>>]
    /\ pre' = [pre EXCEPT ![c] = NoFile]
    /\ UNCHANGED <<fs, cache, val, need, acked, ver, started, log>>

\* read_table through st.cache_data, line 123: a cached entry is returned
\* without running the body
ReadHit(c) ==
    /\ pc[c] = "idle"
    /\ cache[ProcOf(c)].has
    /\ val' = [val EXCEPT ![c] = cache[ProcOf(c)]]
    /\ need' = [need EXCEPT ![c] = acked[ProcOf(c)]]
    /\ pc' = [pc EXCEPT ![c] = "r_done"]
    /\ op' = [op EXCEPT ![c] = "read"]
    /\ UNCHANGED <<fs, frame, pre, cache, acked, ver, started, log>>

\* read_table through st.cache_data, line 123: no entry, the body will run
ReadMiss(c) ==
    /\ pc[c] = "idle"
    /\ ~cache[ProcOf(c)].has
    /\ need' = [need EXCEPT ![c] = acked[ProcOf(c)]]
    /\ pc' = [pc EXCEPT ![c] = "r_disk"]
    /\ op' = [op EXCEPT ![c] = "read"]
    /\ UNCHANGED <<fs, frame, pre, cache, val, acked, ver, started, log>>

\* read_table body, lines 127-133: read the file without taking the lock
ReadDisk(c) ==
    /\ pc[c] = "r_disk"
    /\ val' = [val EXCEPT ![c] = Val(ReadCsvRows(fs, "csv"), ver)]
    /\ pc' = [pc EXCEPT ![c] = "r_store"]
    /\ UNCHANGED <<fs, op, frame, pre, cache, need, acked, ver, started, log>>

\* st.cache_data, line 123: the computed value is stored and returned
ReadStore(c) ==
    /\ pc[c] = "r_store"
    /\ cache' = [cache EXCEPT ![ProcOf(c)] = val[c]]
    /\ pc' = [pc EXCEPT ![c] = "r_done"]
    /\ UNCHANGED <<fs, op, frame, pre, val, need, acked, ver, started, log>>

\* The caller has taken the table read_table returned
ReadReturn(c) ==
    /\ pc[c] = "r_done"
    /\ pc' = [pc EXCEPT ![c] = "idle"]
    /\ op' = [op EXCEPT ![c] = "none"]
    /\ val' = [val EXCEPT ![c] = NoVal]
    /\ need' = [need EXCEPT ![c] = 0]
    /\ UNCHANGED <<fs, frame, pre, cache, acked, ver, started, log>>

\* The process dies at any point (kill, power loss): its sessions stop where
\* they are, its memory (the cache) is gone, the files stay as they are
Crash(p) ==
    /\ \E c \in Ctxs : ProcOf(c) = p /\ pc[c] \in InCall
    /\ pc' = [c \in Ctxs |-> IF ProcOf(c) = p THEN "crashed" ELSE pc[c]]
    /\ cache' = [cache EXCEPT ![p] = NoVal]
    /\ val' = [c \in Ctxs |-> IF ProcOf(c) = p THEN NoVal ELSE val[c]]
    /\ need' = [c \in Ctxs |-> IF ProcOf(c) = p THEN 0 ELSE need[c]]
    /\ UNCHANGED <<fs, op, frame, pre, acked, ver, started, log>>

\* The sessions' steps interleave freely; the other components stand still
TableNext ==
    \/ \E c \in Writers : CallWrite(c) /\ UNCHANGED <<wsVars, catVars, snapVars, lkVars, pureVars>>
    \/ \E c \in Writers : CallAppend(c) /\ UNCHANGED <<wsVars, catVars, snapVars, lkVars, pureVars>>
    \/ \E c \in Writers : Acquire(c) /\ UNCHANGED <<wsVars, catVars, snapVars, lkVars, pureVars>>
    \/ \E c \in Writers : AcquireTimeout(c) /\ UNCHANGED <<wsVars, catVars, snapVars, lkVars, pureVars>>
    \/ \E c \in Writers : AppendRead(c) /\ UNCHANGED <<wsVars, catVars, snapVars, lkVars, pureVars>>
    \/ \E c \in Writers : OpenTemp(c) /\ UNCHANGED <<wsVars, catVars, snapVars, lkVars, pureVars>>
    \/ \E c \in Writers : WriteRow(c) /\ UNCHANGED <<wsVars, catVars, snapVars, lkVars, pureVars>>
    \/ \E c \in Writers : SerialiseError(c) /\ UNCHANGED <<wsVars, catVars, snapVars, lkVars, pureVars>>
    \/ \E c \in Writers : Rename(c) /\ UNCHANGED <<wsVars, catVars, snapVars, lkVars, pureVars>>
    \/ \E c \in Writers : Release(c) /\ UNCHANGED <<wsVars, catVars, snapVars, lkVars, pureVars>>
    \/ \E c \in Writers : ClearCaches(c) /\ UNCHANGED <<wsVars, catVars, snapVars, lkVars, pureVars>>
    \/ \E c \in Writers : Raised(c) /\ UNCHANGED <<wsVars, catVars, snapVars, lkVars, pureVars>>
    \/ \E c \in Readers : ReadHit(c) /\ UNCHANGED <<wsVars, catVars, snapVars, lkVars, pureVars>>
    \/ \E c \in Readers : ReadMiss(c) /\ UNCHANGED <<wsVars, catVars, snapVars, lkVars, pureVars>>
    \/ \E c \in Readers : ReadDisk(c) /\ UNCHANGED <<wsVars, catVars, snapVars, lkVars, pureVars>>
    \/ \E c \in Readers : ReadStore(c) /\ UNCHANGED <<wsVars, catVars, snapVars, lkVars, pureVars>>
    \/ \E c \in Readers : ReadReturn(c) /\ UNCHANGED <<wsVars, catVars, snapVars, lkVars, pureVars>>
    \/ \E p \in Procs : Crash(p) /\ UNCHANGED <<wsVars, catVars, snapVars, lkVars, pureVars>>

----------------------------------------------------------------------------
(* Text: a string is a sequence of ASCII codes *)

IsDigit(ch) == ch \in 48..57
IsLower(ch) == ch \in 97..122
IsUpper(ch) == ch \in 65..90
IsSpace(ch) == ch \in {32, 9}

\* str.lower() / str.casefold() on ASCII text
LowerStr(str) == [i \in 1..Len(str) |-> IF IsUpper(str[i]) THEN str[i] + 32 ELSE str[i]]

RECURSIVE LStripOf(_, _)
LStripOf(str, chars) ==
    IF str = <<>> \/ Head(str) \notin chars THEN str ELSE LStripOf(Tail(str), chars)

RECURSIVE RStripOf(_, _)
RStripOf(str, chars) ==
    IF str = <<>> \/ str[Len(str)] \notin chars THEN str
    ELSE RStripOf(SubSeq(str, 1, Len(str) - 1), chars)

\* str.strip(chars); str.strip() strips white space
StripOf(str, chars) == RStripOf(LStripOf(str, chars), chars)
Strip(str) == StripOf(str, {32, 9})

\* Python's str comparison: lexicographic by code point
RECURSIVE LexLess(_, _)
LexLess(x, y) ==
    IF y = <<>> THEN FALSE
    ELSE IF x = <<>> THEN TRUE
    ELSE IF Head(x) # Head(y) THEN Head(x) < Head(y)
    ELSE LexLess(Tail(x), Tail(y))

\* constants.slugify, lines 80-88: _slug_re.sub("-", value): every run of
\* characters outside [a-z0-9] becomes one hyphen
IsSlugChar(ch) == IsDigit(ch) \/ IsLower(ch)

RECURSIVE SubRuns(_, _)
SubRuns(str, inRun) ==
    IF str = <<>> THEN <<>>
    ELSE IF IsSlugChar(Head(str)) THEN <<Head(str)>> \o SubRuns(Tail(str), FALSE)
    ELSE IF inRun THEN SubRuns(Tail(str), TRUE)
    ELSE <<45>> \o SubRuns(Tail(str), TRUE)

VendorToken == <<118, 101, 110, 100, 111, 114>>

slugify_unstripped(value) == SubRuns(LowerStr(Strip(value)), FALSE)
slugify(value) ==
    LET slug == StripOf(SubRuns(LowerStr(Strip(value)), FALSE), {45})
    IN IF slug = <<>> THEN VendorToken ELSE slug

\* constants.vendor_filename, lines 91-95
vendor_filename(vendor) == slugify(vendor) \o <<46, 99, 115, 118>>

----------------------------------------------------------------------------
(* common/team_state.py: the shared workspace document *)

\* Two sessions call the workspace functions
WsSessions == {1, 2}

\* Feature and workspace names as callers pass them: "Inventory";
\* " alpha  shift " and "Beta Team"; and names that are blank
RawFeatures == {<<73, 110, 118, 101, 110, 116, 111, 114, 121>>}
BlankFeatures == {<<32>>}
RawNames == {<<32, 97, 108, 112, 104, 97, 32, 32, 115, 104, 105, 102, 116, 32>>,
             <<66, 101, 116, 97, 32, 84, 101, 97, 109>>}
BlankNames == {<<32, 32>>}

\* _normalize_feature, line 33: strip().lower().replace(" ", "_"); the empty
\* result stands for the ValueError of lines 34-35
normalize_feature(feature) ==
    LET key == LowerStr(Strip(feature))
    IN [i \in 1..Len(key) |-> IF key[i] = 32 THEN 95 ELSE key[i]]

\* " ".join(text.split()): runs of white space become one space
RECURSIVE JoinSplit(_, _)
JoinSplit(str, inRun) ==
    IF str = <<>> THEN <<>>
    ELSE IF ~IsSpace(Head(str)) THEN <<Head(str)>> \o JoinSplit(Tail(str), FALSE)
    ELSE IF inRun THEN JoinSplit(Tail(str), TRUE)
    ELSE <<32>> \o JoinSplit(Tail(str), TRUE)

\* _normalize_workspace, line 43: cleaned[:60]
WorkspaceNameCap == 60
normalize_workspace_raw(name) == name

\* _normalize_workspace, lines 40-43; the empty result stands for the
\* ValueError of lines 41-42
normalize_workspace(name) ==
    LET cleaned == JoinSplit(Strip(name), FALSE)
    IN SubSeq(cleaned, 1, IF Len(cleaned) < WorkspaceNameCap THEN Len(cleaned)
                          ELSE WorkspaceNameCap)

\* The keys the document holds for the names above
WsFeature  == normalize_feature(<<73, 110, 118, 101, 110, 116, 111, 114, 121>>)
WsNames    == {normalize_workspace(n) : n \in RawNames}

\* Payloads by their JSON shape: {} , a dict of JSON-native values, a dict
\* holding a non-string key or a tuple, and the same dict as JSON returns it
PEmpty  == [kind |-> "empty"]
PNative == [kind |-> "native"]
PIntKey == [kind |-> "intkey"]
PStrKey == [kind |-> "strkey"]
PNone   == [kind |-> "none"]
WsPayloads == {PNative, PIntKey}
WsDefaults == {PNone, PNative}

\* _json_copy, lines 24-29: None becomes {}, json.loads(json.dumps(payload))
\* turns non-string keys into strings (and tuples into lists)
json_copy_identity(payload) == IF payload = PNone THEN PEmpty ELSE payload
json_copy(payload) ==
    IF payload = PNone THEN PEmpty
    ELSE IF payload = PIntKey THEN PStrKey
    ELSE payload

\* dict helpers
EmptyMap == [x \in {} |-> PEmpty]
Put(m, k, v) == [x \in DOMAIN m \cup {k} |-> IF x = k THEN v ELSE m[x]]
Remove_Keep(m, k) == m
Remove(m, k) == [x \in DOMAIN m \ {k} |-> m[x]]
Bucket(store, f) == IF f \in DOMAIN store THEN store[f] ELSE EmptyMap

\* list_workspaces, line 80: sorted(workspaces, key=str.casefold); names with
\* equal keys keep the order of the document, which json.dump(sort_keys=True)
\* wrote by code point
casefold_plain(name) == name
casefold(name) == LowerStr(name)
NameLess(x, y) ==
    \/ LexLess(casefold(x), casefold(y))
    \/ casefold(x) = casefold(y) /\ LexLess(x, y)

RECURSIVE SortedNames(_)
SortedNames(names) ==
    IF names = {} THEN <<>>
    ELSE LET first == CHOOSE x \in names : \A y \in names \ {x} : NameLess(x, y)
         IN <<first>> \o SortedNames(names \ {first})

\* The document file: absent, holding a store, or holding text that is not
\* JSON
NoDoc == [exists |-> FALSE, doc |-> EmptyMap, json |-> TRUE]
Doc(store) == [exists |-> TRUE, doc |-> store, json |-> TRUE]
CorruptDoc == [exists |-> TRUE, doc |-> EmptyMap, json |-> FALSE]

\* Path.replace of _write_store, line 68
ReplaceDoc(f, src, dst) == [f EXCEPT ![dst] = f[src], ![src] = NoDoc]

\* _read_store, lines 51-58: json.load; JSONDecodeError gives an empty store
LoadDoc(file) == IF file.json THEN file.doc ELSE EmptyMap

\* _write_store, lines 69-71: the write that met Timeout is skipped
SkipWrite_WriteAnyway(f, store) == [f EXCEPT !["json"] = Doc(store)]
SkipWrite(f, store) == f

NoCall == [api |-> "none", op |-> "none", feature |-> <<>>, name |-> <<>>,
           asked |-> <<>>,
           payload |-> PNone, timedout |-> FALSE, degraded |-> FALSE,
           raised |-> FALSE, ret |-> PNone, names |-> <<>>]

\* The calls of two sessions working at the same time, and those of a session
\* working alone, which also passes blank names
ValidCalls ==
    {[api |-> "save", feature |-> f, name |-> n, payload |-> p] :
        f \in RawFeatures, n \in RawNames, p \in WsPayloads}
    \cup {[api |-> o, feature |-> f, name |-> n, payload |-> p] :
        o \in {"ensure", "load"}, f \in RawFeatures, n \in RawNames, p \in WsDefaults}
    \cup {[api |-> "delete", feature |-> f, name |-> n, payload |-> PNone] :
        f \in RawFeatures, n \in RawNames}
    \cup {[api |-> "list", feature |-> f, name |-> <<>>, payload |-> PNone] :
        f \in RawFeatures}
\* The calls of the sessions that work at the same time: the pages' own
\* payloads (string keys), with and without a default
SharedCalls ==
    {c \in ValidCalls :
        /\ c.api = "save" => c.payload = PNative
        /\ c.api = "ensure" => c.payload = PNone}
BlankCalls ==
    {[api |-> o, feature |-> f, name |-> n, payload |-> PNone] :
        o \in {"save", "ensure", "load", "delete"}, f \in RawFeatures, n \in BlankNames}
    \cup {[api |-> o, feature |-> f, name |-> n, payload |-> PNone] :
        o \in {"save", "ensure", "load", "delete", "list"},
        f \in BlankFeatures, n \in RawNames}

\* Loads of a name that is longer than the cap of line 43 and has a blank at
\* the cap
LongNames == {[i \in 1..(WorkspaceNameCap - 1) |-> 97] \o <<32, 98>>}
LongCalls ==
    {[api |-> "load", feature |-> f, name |-> n, payload |-> p] :
        f \in RawFeatures, n \in LongNames, p \in WsDefaults}

WsInitWith(docs) ==
    /\ wsFs \in {[json |-> d, tmp |-> NoDoc, lock |-> NoFile] : d \in docs}
    /\ wsPc = [s \in WsSessions |-> "idle"]
    /\ wsStore = [s \in WsSessions |-> EmptyMap]
    /\ wsArg = [s \in WsSessions |-> NoCall]
    /\ wsCalls = 0
    /\ wsPrev = NoCall

WsInit == WsInitWith({NoDoc})

\* list/ensure/load/save/delete_workspace, lines 77, 86-87, 99-100, 112-113,
\* 123-124: the names are normalised, a blank one raises ValueError; then
\* the call goes on to _read_store()
WsCall(s, calls) ==
    /\ wsPc[s] = "idle"
    /\ wsCalls < MaxWsCalls
    /\ \E c \in calls :
          LET f == normalize_feature(c.feature)
              n == IF c.api = "list" THEN <<>> ELSE normalize_workspace(c.name)
              bad == f = <<>> \/ (c.api # "list" /\ n = <<>>)
          IN /\ wsArg' = [wsArg EXCEPT ![s] =
                   [NoCall EXCEPT !.api = c.api, !.op = c.api, !.feature = f,
                                  !.name = n, !.asked = n,
                                  !.payload = c.payload, !.raised = bad]]
             /\ wsPc' = [wsPc EXCEPT ![s] = IF bad THEN "done" ELSE "rs_exists"]
    /\ wsCalls' = wsCalls + 1
    /\ UNCHANGED <<wsFs, wsStore>>

\* _read_store, lines 47-48: no document yet, an empty store
ReadStoreMissing(s) ==
    /\ wsPc[s] = "rs_exists"
    /\ ~wsFs["json"].exists
    /\ wsStore' = [wsStore EXCEPT ![s] = EmptyMap]
    /\ wsPc' = [wsPc EXCEPT ![s] = "modify"]
    /\ UNCHANGED <<wsFs, wsArg, wsCalls>>

\* _read_store, line 47: the document exists, go on to take the lock
ReadStoreExists(s) ==
    /\ wsPc[s] = "rs_exists"
    /\ wsFs["json"].exists
    /\ wsPc' = [wsPc EXCEPT ![s] = "rs_acquire"]
    /\ UNCHANGED <<wsFs, wsStore, wsArg, wsCalls>>

\* _read_store, line 50: FileLock.__enter__ creates the sentinel
ReadStoreAcquire(s) ==
    /\ wsPc[s] = "rs_acquire"
    /\ CanCreate(wsFs, "json")
    /\ wsFs' = [wsFs EXCEPT ![lock_path("json")] = File(<<s>>)]
    /\ wsPc' = [wsPc EXCEPT ![s] = "rs_load"]
    /\ UNCHANGED <<wsStore, wsArg, wsCalls>>

\* _read_store, lines 55-58: Timeout is swallowed, an empty store is returned
ReadStoreTimeout(s) ==
    /\ wsPc[s] = "rs_acquire"
    /\ wsFs[lock_path("json")].exists
    /\ wsFs' = OnAcquireTimeout(wsFs, "json")
    /\ wsStore' = [wsStore EXCEPT ![s] = EmptyMap]
    /\ wsArg' = [wsArg EXCEPT ![s].timedout = TRUE, ![s].degraded = TRUE]
    /\ wsPc' = [wsPc EXCEPT ![s] = "modify"]
    /\ UNCHANGED wsCalls

\* _read_store, lines 51-58: json.load of the document; JSONDecodeError is
\* swallowed
ReadStoreLoad(s) ==
    /\ wsPc[s] = "rs_load"
    /\ wsStore' = [wsStore EXCEPT ![s] = LoadDoc(wsFs["json"])]
    /\ wsArg' = [wsArg EXCEPT ![s].degraded = @ \/ ~wsFs["json"].json]
    /\ wsPc' = [wsPc EXCEPT ![s] = "rs_release"]
    /\ UNCHANGED <<wsFs, wsCalls>>

\* _read_store, line 50: leaving the with block releases the lock
ReadStoreRelease(s) ==
    /\ wsPc[s] = "rs_release"
    /\ wsFs' = release(wsFs, "json")
    /\ wsPc' = [wsPc EXCEPT ![s] = "modify"]
    /\ UNCHANGED <<wsStore, wsArg, wsCalls>>

\* list_workspaces, lines 79-80
ModifyList(s) ==
    /\ wsPc[s] = "modify" /\ wsArg[s].op = "list"
    /\ wsArg' = [wsArg EXCEPT ![s].names =
                    SortedNames(DOMAIN Bucket(wsStore[s], wsArg[s].feature))]
    /\ wsPc' = [wsPc EXCEPT ![s] = "done"]
    /\ UNCHANGED <<wsFs, wsStore, wsCalls>>

\* save_workspace, lines 115-117
ModifySave(s) ==
    /\ wsPc[s] = "modify" /\ wsArg[s].op = "save"
    /\ wsStore' = [wsStore EXCEPT ![s] =
          Put(@, wsArg[s].feature,
              Put(Bucket(@, wsArg[s].feature), wsArg[s].name,
                  json_copy(wsArg[s].payload)))]
    /\ wsPc' = [wsPc EXCEPT ![s] = "ww_acquire"]
    /\ UNCHANGED <<wsFs, wsArg, wsCalls>>

\* ensure_workspace that stores the default whether or not the workspace
\* is there
ModifyEnsure_Overwrite(s) ==
    /\ wsPc[s] = "modify" /\ wsArg[s].op = "ensure"
    /\ wsStore' = [wsStore EXCEPT ![s] =
           Put(@, wsArg[s].feature,
               Put(Bucket(@, wsArg[s].feature), wsArg[s].name,
                   json_copy(wsArg[s].payload)))]
    /\ wsPc' = [wsPc EXCEPT ![s] = "ww_acquire"]
    /\ UNCHANGED <<wsFs, wsArg, wsCalls>>

\* ensure_workspace, lines 89-93: write only when the workspace is absent
ModifyEnsure(s) ==
    /\ wsPc[s] = "modify" /\ wsArg[s].op = "ensure"
    /\ IF wsArg[s].name \in DOMAIN Bucket(wsStore[s], wsArg[s].feature)
       THEN /\ wsPc' = [wsPc EXCEPT ![s] = "done"]
            /\ UNCHANGED wsStore
       ELSE /\ wsStore' = [wsStore EXCEPT ![s] =
                  Put(@, wsArg[s].feature,
                      Put(Bucket(@, wsArg[s].feature), wsArg[s].name,
                          json_copy(wsArg[s].payload)))]
            /\ wsPc' = [wsPc EXCEPT ![s] = "ww_acquire"]
    /\ UNCHANGED <<wsFs, wsArg, wsCalls>>

\* load_workspace, lines 101-106: a stored payload is returned as a copy; a
\* missing one makes load call ensure_workspace, which reads the store
\* again, and return a copy of the default
ModifyLoad(s) ==
    /\ wsPc[s] = "modify" /\ wsArg[s].op = "load"
    /\ IF wsArg[s].name \in DOMAIN Bucket(wsStore[s], wsArg[s].feature)
       THEN /\ wsPc' = [wsPc EXCEPT ![s] = "done"]
            /\ wsArg' = [wsArg EXCEPT ![s].ret =
                            json_copy(wsStore[s][wsArg[s].feature][wsArg[s].name])]
       ELSE /\ wsPc' = [wsPc EXCEPT ![s] = "rs_exists"]
            /\ wsArg' = [wsArg EXCEPT ![s].op = "ensure",
                                      ![s].feature = normalize_feature(@),
                                      ![s].name = normalize_workspace(@),
                                      ![s].ret = json_copy(wsArg[s].payload)]
    /\ UNCHANGED <<wsFs, wsStore, wsCalls>>

\* delete_workspace, lines 125-135
ModifyDelete(s) ==
    /\ wsPc[s] = "modify" /\ wsArg[s].op = "delete"
    /\ IF wsArg[s].name \notin DOMAIN Bucket(wsStore[s], wsArg[s].feature)
       THEN /\ wsPc' = [wsPc EXCEPT ![s] = "done"]
            /\ UNCHANGED wsStore
       ELSE /\ wsStore' = [wsStore EXCEPT ![s] =
                  IF DOMAIN Remove(@[wsArg[s].feature], wsArg[s].name) = {}
                  THEN Remove(@, wsArg[s].feature)
                  ELSE Put(@, wsArg[s].feature,
                           Remove(@[wsArg[s].feature], wsArg[s].name))]
            /\ wsPc' = [wsPc EXCEPT ![s] = "ww_acquire"]
    /\ UNCHANGED <<wsFs, wsArg, wsCalls>>

\* _write_store, line 65: FileLock.__enter__ creates the sentinel
WriteStoreAcquire(s) ==
    /\ wsPc[s] = "ww_acquire"
    /\ CanCreate(wsFs, "json")
    /\ wsFs' = [wsFs EXCEPT ![lock_path("json")] = File(<<s>>)]
    /\ wsPc' = [wsPc EXCEPT ![s] = "ww_dump"]
    /\ UNCHANGED <<wsStore, wsArg, wsCalls>>

\* _write_store, lines 69-71: Timeout is swallowed, the write is skipped
WriteStoreTimeout(s) ==
    /\ wsPc[s] = "ww_acquire"
    /\ wsFs[lock_path("json")].exists
    /\ wsFs' = SkipWrite(OnAcquireTimeout(wsFs, "json"), wsStore[s])
    /\ wsArg' = [wsArg EXCEPT ![s].timedout = TRUE]
    /\ wsPc' = [wsPc EXCEPT ![s] = "done"]
    /\ UNCHANGED <<wsStore, wsCalls>>

\* _write_store, lines 66-67: json.dump into team_state.tmp
WriteStoreDump(s) ==
    /\ wsPc[s] = "ww_dump"
    /\ wsFs' = [wsFs EXCEPT !["tmp"] = Doc(wsStore[s])]
    /\ wsPc' = [wsPc EXCEPT ![s] = "ww_replace"]
    /\ UNCHANGED <<wsStore, wsArg, wsCalls>>

\* _write_store, line 68: rename onto team_state.json
WriteStoreReplace(s) ==
    /\ wsPc[s] = "ww_replace"
    /\ wsFs' = ReplaceDoc(wsFs, "tmp", "json")
    /\ wsPc' = [wsPc EXCEPT ![s] = "ww_release"]
    /\ UNCHANGED <<wsStore, wsArg, wsCalls>>

\* _write_store, line 65: leaving the with block releases the lock
WriteStoreRelease(s) ==
    /\ wsPc[s] = "ww_release"
    /\ wsFs' = release(wsFs, "json")
    /\ wsPc' = [wsPc EXCEPT ![s] = "done"]
    /\ UNCHANGED <<wsStore, wsArg, wsCalls>>

\* The call has returned (or raised); the session goes on
WsReturn(s) ==
    /\ wsPc[s] = "done"
    /\ wsPc' = [wsPc EXCEPT ![s] = "idle"]
    /\ wsArg' = [wsArg EXCEPT ![s] = NoCall]
    /\ wsStore' = [wsStore EXCEPT ![s] = EmptyMap]
    /\ UNCHANGED <<wsFs, wsCalls>>

\* Two sessions at work: their steps interleave freely
WsNext ==
    \/ \E s \in WsSessions : WsCall(s, SharedCalls) /\ UNCHANGED <<tableVars, catVars, snapVars, wsPrev, lkVars, pureVars>>
    \/ \E s \in WsSessions : ReadStoreMissing(s) /\ UNCHANGED <<tableVars, catVars, snapVars, wsPrev, lkVars, pureVars>>
    \/ \E s \in WsSessions : ReadStoreExists(s) /\ UNCHANGED <<tableVars, catVars, snapVars, wsPrev, lkVars, pureVars>>
    \/ \E s \in WsSessions : ReadStoreAcquire(s) /\ UNCHANGED <<tableVars, catVars, snapVars, wsPrev, lkVars, pureVars>>
    \/ \E s \in WsSessions : ReadStoreTimeout(s) /\ UNCHANGED <<tableVars, catVars, snapVars, wsPrev, lkVars, pureVars>>
    \/ \E s \in WsSessions : ReadStoreLoad(s) /\ UNCHANGED <<tableVars, catVars, snapVars, wsPrev, lkVars, pureVars>>
    \/ \E s \in WsSessions : ReadStoreRelease(s) /\ UNCHANGED <<tableVars, catVars, snapVars, wsPrev, lkVars, pureVars>>
    \/ \E s \in WsSessions : ModifyList(s) /\ UNCHANGED <<tableVars, catVars, snapVars, wsPrev, lkVars, pureVars>>
    \/ \E s \in WsSessions : ModifySave(s) /\ UNCHANGED <<tableVars, catVars, snapVars, wsPrev, lkVars, pureVars>>
    \/ \E s \in WsSessions : ModifyEnsure(s) /\ UNCHANGED <<tableVars, catVars, snapVars, wsPrev, lkVars, pureVars>>
    \/ \E s \in WsSessions : ModifyLoad(s) /\ UNCHANGED <<tableVars, catVars, snapVars, wsPrev, lkVars, pureVars>>
    \/ \E s \in WsSessions : ModifyDelete(s) /\ UNCHANGED <<tableVars, catVars, snapVars, wsPrev, lkVars, pureVars>>
    \/ \E s \in WsSessions : WriteStoreAcquire(s) /\ UNCHANGED <<tableVars, catVars, snapVars, wsPrev, lkVars, pureVars>>
    \/ \E s \in WsSessions : WriteStoreTimeout(s) /\ UNCHANGED <<tableVars, catVars, snapVars, wsPrev, lkVars, pureVars>>
    \/ \E s \in WsSessions : WriteStoreDump(s) /\ UNCHANGED <<tableVars, catVars, snapVars, wsPrev, lkVars, pureVars>>
    \/ \E s \in WsSessions : WriteStoreReplace(s) /\ UNCHANGED <<tableVars, catVars, snapVars, wsPrev, lkVars, pureVars>>
    \/ \E s \in WsSessions : WriteStoreRelease(s) /\ UNCHANGED <<tableVars, catVars, snapVars, wsPrev, lkVars, pureVars>>
    \/ \E s \in WsSessions : WsReturn(s) /\ UNCHANGED <<tableVars, catVars, snapVars, wsPrev, lkVars, pureVars>>

\* One session works alone, one call after the other; wsPrev keeps the call
\* that returned last.  (No sentinel is ever in its way, so no Timeout.)
WsSoloNext ==
    \/ WsCall(1, ValidCalls \cup BlankCalls \cup LongCalls) /\ UNCHANGED <<tableVars, catVars, snapVars, wsPrev, lkVars, pureVars>>
    \/ ReadStoreMissing(1) /\ UNCHANGED <<tableVars, catVars, snapVars, wsPrev, lkVars, pureVars>>
    \/ ReadStoreExists(1) /\ UNCHANGED <<tableVars, catVars, snapVars, wsPrev, lkVars, pureVars>>
    \/ ReadStoreAcquire(1) /\ UNCHANGED <<tableVars, catVars, snapVars, wsPrev, lkVars, pureVars>>
    \/ ReadStoreLoad(1) /\ UNCHANGED <<tableVars, catVars, snapVars, wsPrev, lkVars, pureVars>>
    \/ ReadStoreRelease(1) /\ UNCHANGED <<tableVars, catVars, snapVars, wsPrev, lkVars, pureVars>>
    \/ ModifyList(1) /\ UNCHANGED <<tableVars, catVars, snapVars, wsPrev, lkVars, pureVars>>
    \/ ModifySave(1) /\ UNCHANGED <<tableVars, catVars, snapVars, wsPrev, lkVars, pureVars>>
    \/ ModifyEnsure(1) /\ UNCHANGED <<tableVars, catVars, snapVars, wsPrev, lkVars, pureVars>>
    \/ ModifyLoad(1) /\ UNCHANGED <<tableVars, catVars, snapVars, wsPrev, lkVars, pureVars>>
    \/ ModifyDelete(1) /\ UNCHANGED <<tableVars, catVars, snapVars, wsPrev, lkVars, pureVars>>
    \/ WriteStoreAcquire(1) /\ UNCHANGED <<tableVars, catVars, snapVars, wsPrev, lkVars, pureVars>>
    \/ WriteStoreDump(1) /\ UNCHANGED <<tableVars, catVars, snapVars, wsPrev, lkVars, pureVars>>
    \/ WriteStoreReplace(1) /\ UNCHANGED <<tableVars, catVars, snapVars, wsPrev, lkVars, pureVars>>
    \/ WriteStoreRelease(1) /\ UNCHANGED <<tableVars, catVars, snapVars, wsPrev, lkVars, pureVars>>
    \/ WsReturn(1) /\ wsPrev' = wsArg[1] /\ UNCHANGED <<tableVars, catVars, snapVars, lkVars, pureVars>>

----------------------------------------------------------------------------
(* pandas cells and the CSV round trip *)

\* A DataFrame cell: a string, an integer (its decimal digits), a float
\* holding an integer value, or NaN
StrCell(str)   == [t |-> "str", s |-> str]
IntCell(str)   == [t |-> "int", s |-> str]
FloatCell(str) == [t |-> "float", s |-> str]
NaN            == [t |-> "nan", s |-> <<>>]

NumericText(str) == str # <<>> /\ \A i \in 1..Len(str) : IsDigit(str[i])

\* int("007") printed again: leading zeros are gone
RECURSIVE StripZeros(_)
StripZeros(str) ==
    IF Len(str) > 1 /\ Head(str) = 48 THEN StripZeros(Tail(str)) ELSE str

\* pd.read_csv without dtype (db.read_table, line 131): a column whose fields
\* are all integers becomes int64, one with integers and empty fields becomes
\* float64, any other column keeps its text, empty fields being NaN
InferColumn(col) ==
    IF \A i \in 1..Len(col) : NumericText(col[i])
    THEN [i \in 1..Len(col) |-> IntCell(StripZeros(col[i]))]
    ELSE IF \A i \in 1..Len(col) : col[i] = <<>> \/ NumericText(col[i])
    THEN [i \in 1..Len(col) |->
             IF col[i] = <<>> THEN NaN ELSE FloatCell(StripZeros(col[i]))]
    ELSE [i \in 1..Len(col) |-> IF col[i] = <<>> THEN NaN ELSE StrCell(col[i])]

\* DataFrame.to_csv: the text of a cell (NaN is written as an empty field)
ToText(cell) ==
    IF cell.t = "float" THEN cell.s \o <<46, 48>> ELSE cell.s

\* price_date: a timestamp counts ticks, TicksPerDay ticks to the day; the
\* file keeps the day only (date().isoformat() / strftime("%Y-%m-%d"))
TicksPerDay == 2
DayOf(ts) == ts \div TicksPerDay
\* safe_parse_date of a blank or unparsable price_date (utils.py:239-244)
NaT == 0
ParseDay(day) == day * TicksPerDay

\* read_table of the catalog file: typed cells, dates parsed
ReadCsv(file) ==
    LET vcol == InferColumn([i \in 1..Len(file) |-> file[i].vendor])
        icol == InferColumn([i \in 1..Len(file) |-> file[i].item])
    IN [i \in 1..Len(file) |->
           [vendor |-> vcol[i], item |-> icol[i],
            ts |-> ParseDay(file[i].day), cost |-> file[i].cost]]

\* to_csv of a frame whose price_date was formatted to the day
WriteCsv(rows) ==
    [i \in 1..Len(rows) |->
        [vendor |-> ToText(rows[i].vendor), item |-> ToText(rows[i].item),
         day |-> DayOf(rows[i].ts), cost |-> rows[i].cost]]

----------------------------------------------------------------------------
(* utils.normalize_items and the two upload pages *)

\* utils.normalize_items, line 317: fillna("").astype(str).str.strip()
CellStr(cell) == Strip(ToText(cell))

\* str(index label) for the small frames of the model
IndexText(i) == <<48 + i>>

DefaultVendor == <<86, 101, 110, 100, 111, 114>>

\* utils.normalize_items, lines 316-350, on the columns of the natural key,
\* the price and the price date.  A row's index label is its position.
normalize_items(rows) ==
    [i \in 1..Len(rows) |->
        [vendor |-> StrCell(IF CellStr(rows[i].vendor) = <<>> THEN DefaultVendor
                            ELSE CellStr(rows[i].vendor)),
         item |-> StrCell(IF CellStr(rows[i].item) = <<>> THEN IndexText(i - 1)
                          ELSE CellStr(rows[i].item)),
         ts |-> rows[i].ts,
         cost |-> rows[i].cost]]

\* sort_values keys: "batch" = [item_number, price_date desc]
\* (upload_catalogs.py:155), "save" = [vendor, item_number, price_date desc]
\* (upload_catalogs.py:211-215), "date" = price_date desc (1_..py:102, 142)
Before(mode, x, y) ==
    IF mode = "date" THEN x.ts > y.ts
    ELSE IF mode = "batch"
    THEN \/ LexLess(x.item.s, y.item.s)
         \/ x.item.s = y.item.s /\ x.ts > y.ts
    ELSE \/ LexLess(x.vendor.s, y.vendor.s)
         \/ x.vendor.s = y.vendor.s /\ LexLess(x.item.s, y.item.s)
         \/ x.vendor.s = y.vendor.s /\ x.item.s = y.item.s /\ x.ts > y.ts

RECURSIVE InsertRow(_, _, _)
InsertRow(mode, sorted, r) ==
    IF sorted = <<>> THEN <<r>>
    ELSE IF Before(mode, r, Head(sorted)) THEN <<r>> \o sorted
    ELSE <<Head(sorted)>> \o InsertRow(mode, Tail(sorted), r)

\* DataFrame.sort_values: rows with equal keys keep their order
RECURSIVE sort_values(_, _)
sort_values(mode, rows) ==
    IF rows = <<>> THEN <<>>
    ELSE InsertRow(mode, sort_values(mode, SubSeq(rows, 1, Len(rows) - 1)),
                   rows[Len(rows)])

\* drop_duplicates(subset=["vendor", "item_number"], keep="first"): cells are
\* equal when type and value are (123 and "123" differ, NaN equals NaN)
RECURSIVE drop_duplicates(_)
drop_duplicates(rows) ==
    IF rows = <<>> THEN <<>>
    ELSE LET init == drop_duplicates(SubSeq(rows, 1, Len(rows) - 1))
             r == rows[Len(rows)]
         IN IF \E j \in 1..Len(init) :
                   init[j].vendor = r.vendor /\ init[j].item = r.item
            THEN init ELSE Append(init, r)

\* utils.load_file_to_dataframe, lines 182-185 (and _load_dataframe of
\* 1_..._Upload_Catalogs.py, lines 40-43): a CSV upload goes through
\* pd.read_csv and its type inference, a workbook keeps its text cells
LoadItems(kind, batch) ==
    IF kind = "csv" THEN InferColumn([i \in 1..Len(batch) |-> batch[i].item])
    ELSE [i \in 1..Len(batch) |-> StrCell(batch[i].item)]

\* upload_catalogs.py main, lines 125-153: the accepted rows of an upload
\* (vendor column set from the vendor field, rows without a price dropped)
AcceptedRows(vendor, kind, batch) ==
    LET mapped == [i \in 1..Len(batch) |->
                      [vendor |-> StrCell(vendor), item |-> LoadItems(kind, batch)[i],
                       ts |-> batch[i].ts, cost |-> batch[i].cost]]
        HasCost(r) == r.ts # NaT /\ r.cost > 0
    IN SelectSeq(normalize_items(mapped), HasCost)

\* upload_catalogs.py main, lines 127-131 and 144-147: the records handed to
\* log_exception, one per row without a price date, then one per remaining
\* row without a price
LoggedIssues(batch) ==
    LET Issue(i, reason) == [row |-> i, details |-> reason]
        Rows(Skipped(_)) == SelectSeq([i \in 1..Len(batch) |-> i], Skipped)
        NoDate(i) == batch[i].ts = NaT
        NoCost(i) == batch[i].ts # NaT /\ batch[i].cost <= 0
    IN [k \in 1..Len(Rows(NoDate)) |-> Issue(Rows(NoDate)[k], "missing price_date")]
       \o [k \in 1..Len(Rows(NoCost)) |-> Issue(Rows(NoCost)[k], "missing case_cost")]

\* upload_catalogs.py main, lines 158-160 and 209-220 ("Save catalog")
SaveCatalogTable(file, accepted) ==
    LET normalized == drop_duplicates(sort_values("batch", accepted))
        existing == ReadCsv(file)
        existing_normalized ==
            IF existing = <<>> THEN <<>> ELSE normalize_items(existing)
        combined == drop_duplicates(
                        sort_values("save", existing_normalized \o normalized))
    IN WriteCsv(combined)

\* 1_..._Upload_Catalogs.py, lines 77-103: the vendor column is assigned to
\* the still empty frame, so it is NaN on every row and "" after fillna("");
\* item numbers are made strings, rows without one dropped; prices are
\* coerced (not filtered); dates are cut to the day
PreviewRows(selected_vendor, kind, batch) ==
    LET mapped == [i \in 1..Len(batch) |->
                      [vendor |-> StrCell(<<>>),
                       item |-> StrCell(CellStr(LoadItems(kind, batch)[i])),
                       ts |-> ParseDay(DayOf(batch[i].ts)), cost |-> batch[i].cost]]
        HasItem(r) == r.item.s # <<>>
    IN SelectSeq(mapped, HasItem)

\* 1_..._Upload_Catalogs.py, lines 108 and 139-145 ("Commit to catalog"):
\* the existing table is concatenated as read_table returned it
CommitTable(file, preview) ==
    LET csv_preview == drop_duplicates(sort_values("date", preview))
        existing == ReadCsv(file)
        combined == drop_duplicates(sort_values("date", existing \o csv_preview))
    IN WriteCsv(combined)

\* Vendor names a user enters or selects, all naming catalogs/pfg.csv
Vendors == {<<80, 70, 71>>, <<112, 102, 103>>}
SelectableVendors == {<<80, 70, 71>>}
CatalogFile == <<112, 102, 103, 46, 99, 115, 118>>

\* Upload rows: item numbers "7", "07", "A7"; price dates on day 1 (during
\* the day) and day 2; a missing price (0) or one of two prices
MaxBatch == 2
MaxUploads == 2
UploadItems == {<<55>>, <<48, 55>>, <<65, 55>>}
UploadTimes == {ParseDay(1) + 1, ParseDay(2)}
UploadCosts == {0, 10, 12}
UploadRows ==
    {[item |-> i, ts |-> t, cost |-> c] :
        i \in UploadItems, t \in UploadTimes, c \in UploadCosts}
Batches == UNION {[1..n -> UploadRows] : n \in 1..MaxBatch}
UploadKinds == {"csv", "xlsx"}

\* Natural key of a persisted row: vendor compared case-insensitively
\* (upload_catalogs.py:162-165 counts keys on vendor.str.casefold())
NaturalKey(row) == <<LowerStr(row.vendor), row.item>>
RowsOfKey(rows, k) == {i \in 1..Len(rows) : NaturalKey(rows[i]) = k}

\* For every natural key among the rows, its greatest price date (day)
LatestByKey(rows) ==
    {<<NaturalKey(rows[i]), rows[i].day>> :
        i \in {n \in 1..Len(rows) :
                  \A j \in RowsOfKey(rows, NaturalKey(rows[n])) :
                      rows[j].day <= rows[n].day}}

CatInit ==
    /\ catFile = <<>>
    /\ catLatest = {}
    /\ catAgain = <<>>
    /\ uploads = 0

\* upload_catalogs.py main: an upload is mapped, reviewed and saved
SaveCatalog(vendor, kind, batch) ==
    LET accepted == AcceptedRows(vendor, kind, batch)
        saved == SaveCatalogTable(catFile, accepted)
    IN /\ uploads < MaxUploads
       /\ vendor_filename(vendor) = CatalogFile
       /\ accepted # <<>>
       /\ catFile' = saved
       /\ catLatest' = LatestByKey(catFile \o WriteCsv(accepted))
       /\ catAgain' = SaveCatalogTable(saved, accepted)
       /\ uploads' = uploads + 1

\* 1_..._Upload_Catalogs.py: an upload is mapped, previewed and committed
CommitCatalog(selected_vendor, kind, batch) ==
    LET preview == PreviewRows(selected_vendor, kind, batch)
        saved == CommitTable(catFile, preview)
    IN /\ uploads < MaxUploads
       /\ LowerStr(selected_vendor) \o <<46, 99, 115, 118>> = CatalogFile
       /\ preview # <<>>
       /\ catFile' = saved
       /\ catLatest' = LatestByKey(catFile \o WriteCsv(preview))
       /\ catAgain' = CommitTable(saved, preview)
       /\ uploads' = uploads + 1

\* Uploads through upload_catalogs.py only
CatNext ==
    \/ \E v \in Vendors, k \in UploadKinds, b \in Batches :
          SaveCatalog(v, k, b) /\ UNCHANGED <<tableVars, wsVars, snapVars, lkVars, pureVars>>

\* Uploads through the "Upload Catalogs" page of the numbered page set
CommitNext ==
    \/ \E v \in SelectableVendors, k \in UploadKinds, b \in Batches :
          CommitCatalog(v, k, b) /\ UNCHANGED <<tableVars, wsVars, snapVars, lkVars, pureVars>>

----------------------------------------------------------------------------
(* common/db.py: snapshot, latest_file; and the writers that go past them *)

\* calls into the snapshot directory begun in one behaviour
MaxSnapshots == 3

\* seconds the wall clock advances in one behaviour
MaxSeconds == 1

SnapSessions == {1, 2}

\* snapshot(), lines 169-171: f"{prefix}_{ts}.csv", or f"{ts}.csv" without
\* prefix, ts being the clock cut to whole seconds
SnapFile(prefix, ts) == [prefix |-> prefix, ts |-> ts, stamped |-> TRUE]

\* data_layer.write_table, line 42: DATA_DIR / f"{name}.csv"
TableFile(name) == [prefix |-> name, ts |-> 0, stamped |-> FALSE]

\* latest_file on a directory without snapshots: None
NoName == [prefix |-> "", ts |-> 0, stamped |-> FALSE]

\* prefixes: slugify(workspace) of pages/inventory.py line 250; the name
\* pages/4_..._Inventory_Count.py line 296 passes to append_snapshot; no
\* prefix in pages/4_..._Inventory.py line 367
Prefixes == {"bar", "patio"}
DirectPrefixes == {"inventory_count", ""}
Names ==
    {SnapFile(p, t) : p \in Prefixes \cup DirectPrefixes, t \in 0..MaxSeconds}
    \cup {TableFile("ingredient_master")}

NoFiles == [csv |-> NoFile, tmp |-> NoFile, lock |-> NoFile]
NoTimes == [csv |-> 0, tmp |-> 0, lock |-> 0]

\* st_mtime of a file written now: later than that of every file written
\* before
RECURSIVE MaxTime(_, _)
MaxTime(mt, names) ==
    IF names = {} THEN 0
    ELSE LET n == CHOOSE x \in names : TRUE
             rest == MaxTime(mt, names \ {n})
             own == IF mt[n].csv >= mt[n].tmp THEN mt[n].csv ELSE mt[n].tmp
             top == IF own >= mt[n].lock THEN own ELSE mt[n].lock
         IN IF top >= rest THEN top ELSE rest
Now(mt) == MaxTime(mt, DOMAIN mt) + 1

\* latest_file, line 257: directory.glob("*.csv") matches neither
\* "x.csv.lock" nor "x.csv.tmp"
GlobCsv_Any(suffix) == TRUE
GlobCsv(suffix) == suffix = "csv"

\* latest_file, lines 257-260: the entries of the snapshot directory that
\* match, None without any, else the one of greatest st_mtime
latest_file(f, mt) ==
    LET files == {e \in {n \in DOMAIN f : n.stamped} \X {"csv", "tmp", "lock"} :
                     f[e[1]][e[2]].exists /\ GlobCsv(e[2])}
    IN IF files = {} THEN <<NoName, "csv">>
       ELSE CHOOSE e \in files :
               \A o \in files : mt[o[1]][o[2]] <= mt[e[1]][e[2]]

SnapInit ==
    /\ clock = 0
    /\ snapFs = [n \in Names |-> NoFiles]
    /\ snapMtime = [n \in Names |-> NoTimes]
    /\ snapPc = [s \in SnapSessions |-> "idle"]
    /\ snapArg = [s \in SnapSessions |-> [name |-> NoName, rows |-> <<>>]]
    /\ snapHist = [begun |-> 0, ok |-> 0, last |-> NoName, newest |-> NoName,
                   solo |-> TRUE]

\* A call begins: it is counted, and it overlaps when another one is running
Begin(s, name, isSnapshot) ==
    /\ snapPc[s] = "idle"
    /\ snapHist.begun < MaxSnapshots
    /\ snapArg' = [snapArg EXCEPT ![s] = [name |-> name,
                                          rows |-> <<snapHist.begun + 1>>]]
    /\ snapHist' = [snapHist EXCEPT
                      !.begun = @ + 1,
                      !.newest = IF isSnapshot THEN name ELSE @,
                      !.solo = @ /\ \A o \in SnapSessions : snapPc[o] = "idle"]

\* the clock reaches the next second
Tick ==
    /\ clock < MaxSeconds
    /\ clock' = clock + 1
    /\ UNCHANGED <<snapFs, snapMtime, snapPc, snapArg, snapHist>>

\* snapshot, lines 164-171: the file name is fixed from prefix and clock
SnapshotCall(s) ==
    /\ \E p \in Prefixes : Begin(s, SnapFile(p, clock), TRUE)
    /\ snapPc' = [snapPc EXCEPT ![s] = "acquire"]
    /\ UNCHANGED <<clock, snapFs, snapMtime>>

\* snapshot, line 172: _locked(csv_path) creates the sentinel
SnapAcquire(s) ==
    /\ snapPc[s] = "acquire"
    /\ CanCreate(snapFs[snapArg[s].name], "csv")
    /\ snapFs' = [snapFs EXCEPT ![snapArg[s].name][lock_path("csv")] = File(<<s>>)]
    /\ snapMtime' = [snapMtime EXCEPT ![snapArg[s].name][lock_path("csv")] =
                        Now(snapMtime)]
    /\ snapPc' = [snapPc EXCEPT ![s] = "serialise"]
    /\ UNCHANGED <<clock, snapArg, snapHist>>

\* snapshot, line 172: the sentinel stays taken until the deadline; Timeout
\* leaves snapshot()
SnapAcquireTimeout(s) ==
    /\ snapPc[s] = "acquire"
    /\ ~CanCreate(snapFs[snapArg[s].name], "csv")
    /\ snapFs' = [snapFs EXCEPT ![snapArg[s].name] = OnAcquireTimeout(@, "csv")]
    /\ snapPc' = [snapPc EXCEPT ![s] = "idle"]
    /\ UNCHANGED <<clock, snapMtime, snapArg, snapHist>>

\* _atomic_write, lines 118-119: df.to_csv(temp_path)
SnapWriteTemp(s) ==
    /\ snapPc[s] = "serialise"
    /\ snapFs' = [snapFs EXCEPT ![snapArg[s].name][temp_path("csv")] =
                     File(snapArg[s].rows)]
    /\ snapMtime' = [snapMtime EXCEPT ![snapArg[s].name][temp_path("csv")] =
                        Now(snapMtime)]
    /\ snapPc' = [snapPc EXCEPT ![s] = "rename"]
    /\ UNCHANGED <<clock, snapArg, snapHist>>

\* _atomic_write, line 120: temp_path.replace(target); the file keeps the
\* st_mtime of its last write
SnapRename(s) ==
    /\ snapPc[s] = "rename"
    /\ snapFs' = [snapFs EXCEPT ![snapArg[s].name] =
                     Replace(@, temp_path("csv"), "csv")]
    /\ snapMtime' = [snapMtime EXCEPT ![snapArg[s].name] =
                        [csv |-> @[temp_path("csv")], tmp |-> 0, lock |-> @.lock]]
    /\ snapPc' = [snapPc EXCEPT ![s] = "release"]
    /\ UNCHANGED <<clock, snapArg, snapHist>>

\* snapshot, line 172: leaving the with block releases the lock
SnapRelease(s) ==
    /\ snapPc[s] = "release"
    /\ snapFs' = [snapFs EXCEPT ![snapArg[s].name] = release(@, "csv")]
    /\ snapMtime' = [snapMtime EXCEPT ![snapArg[s].name][lock_path("csv")] = 0]
    /\ snapPc' = [snapPc EXCEPT ![s] = "return"]
    /\ UNCHANGED <<clock, snapArg, snapHist>>

\* snapshot, lines 174-175: caches cleared, the path is returned
SnapReturn(s) ==
    /\ snapPc[s] = "return"
    /\ snapHist' = [snapHist EXCEPT !.ok = @ + 1, !.last = snapArg[s].name]
    /\ snapPc' = [snapPc EXCEPT ![s] = "idle"]
    /\ UNCHANGED <<clock, snapFs, snapMtime, snapArg>>

\* pages/4_..._Inventory.py, lines 366-368: the page names the snapshot itself
PageSubmit(s) ==
    /\ Begin(s, SnapFile("", clock), FALSE)
    /\ snapPc' = [snapPc EXCEPT ![s] = "to_csv"]
    /\ UNCHANGED <<clock, snapFs, snapMtime>>

\* data_layer.append_snapshot, lines 57-70
AppendSnapshot(s) ==
    /\ Begin(s, SnapFile("inventory_count", clock), FALSE)
    /\ snapPc' = [snapPc EXCEPT ![s] = "to_csv"]
    /\ UNCHANGED <<clock, snapFs, snapMtime>>

\* data_layer.write_table, lines 41-42
DataLayerWriteTable(s) ==
    /\ Begin(s, TableFile("ingredient_master"), FALSE)
    /\ snapPc' = [snapPc EXCEPT ![s] = "to_csv"]
    /\ UNCHANGED <<clock, snapFs, snapMtime>>

\* df.to_csv(file_path) of data_layer lines 45 and 73 and of the page's line
\* 369: the target itself is opened for writing, which creates or empties it
DirectOpen(s) ==
    /\ snapPc[s] = "to_csv"
    /\ snapFs' = [snapFs EXCEPT ![snapArg[s].name]["csv"] = File(<<>>)]
    /\ snapMtime' = [snapMtime EXCEPT ![snapArg[s].name]["csv"] = Now(snapMtime)]
    /\ snapPc' = [snapPc EXCEPT ![s] = "to_csv_rows"]
    /\ UNCHANGED <<clock, snapArg, snapHist>>

\* ... and the rows are written into it
DirectWrite(s) ==
    /\ snapPc[s] = "to_csv_rows"
    /\ snapFs' = [snapFs EXCEPT ![snapArg[s].name]["csv"] = File(snapArg[s].rows)]
    /\ snapMtime' = [snapMtime EXCEPT ![snapArg[s].name]["csv"] = Now(snapMtime)]
    /\ snapPc' = [snapPc EXCEPT ![s] = "idle"]
    /\ UNCHANGED <<clock, snapArg, snapHist>>

\* Sessions that submit through snapshot()
SnapNext ==
    \/ Tick /\ UNCHANGED <<tableVars, wsVars, catVars, lkVars, pureVars>>
    \/ \E s \in SnapSessions : SnapshotCall(s) /\ UNCHANGED <<tableVars, wsVars, catVars, lkVars, pureVars>>
    \/ \E s \in SnapSessions : SnapAcquire(s) /\ UNCHANGED <<tableVars, wsVars, catVars, lkVars, pureVars>>
    \/ \E s \in SnapSessions : SnapAcquireTimeout(s) /\ UNCHANGED <<tableVars, wsVars, catVars, lkVars, pureVars>>
    \/ \E s \in SnapSessions : SnapWriteTemp(s) /\ UNCHANGED <<tableVars, wsVars, catVars, lkVars, pureVars>>
    \/ \E s \in SnapSessions : SnapRename(s) /\ UNCHANGED <<tableVars, wsVars, catVars, lkVars, pureVars>>
    \/ \E s \in SnapSessions : SnapRelease(s) /\ UNCHANGED <<tableVars, wsVars, catVars, lkVars, pureVars>>
    \/ \E s \in SnapSessions : SnapReturn(s) /\ UNCHANGED <<tableVars, wsVars, catVars, lkVars, pureVars>>

\* ... and sessions on the pages that write the files themselves
SnapAllNext ==
    \/ Tick /\ UNCHANGED <<tableVars, wsVars, catVars, lkVars, pureVars>>
    \/ \E s \in SnapSessions : SnapshotCall(s) /\ UNCHANGED <<tableVars, wsVars, catVars, lkVars, pureVars>>
    \/ \E s \in SnapSessions : SnapAcquire(s) /\ UNCHANGED <<tableVars, wsVars, catVars, lkVars, pureVars>>
    \/ \E s \in SnapSessions : SnapAcquireTimeout(s) /\ UNCHANGED <<tableVars, wsVars, catVars, lkVars, pureVars>>
    \/ \E s \in SnapSessions : SnapWriteTemp(s) /\ UNCHANGED <<tableVars, wsVars, catVars, lkVars, pureVars>>
    \/ \E s \in SnapSessions : SnapRename(s) /\ UNCHANGED <<tableVars, wsVars, catVars, lkVars, pureVars>>
    \/ \E s \in SnapSessions : SnapRelease(s) /\ UNCHANGED <<tableVars, wsVars, catVars, lkVars, pureVars>>
    \/ \E s \in SnapSessions : SnapReturn(s) /\ UNCHANGED <<tableVars, wsVars, catVars, lkVars, pureVars>>
    \/ \E s \in SnapSessions : PageSubmit(s) /\ UNCHANGED <<tableVars, wsVars, catVars, lkVars, pureVars>>
    \/ \E s \in SnapSessions : AppendSnapshot(s) /\ UNCHANGED <<tableVars, wsVars, catVars, lkVars, pureVars>>
    \/ \E s \in SnapSessions : DataLayerWriteTable(s) /\ UNCHANGED <<tableVars, wsVars, catVars, lkVars, pureVars>>
    \/ \E s \in SnapSessions : DirectOpen(s) /\ UNCHANGED <<tableVars, wsVars, catVars, lkVars, pureVars>>
    \/ \E s \in SnapSessions : DirectWrite(s) /\ UNCHANGED <<tableVars, wsVars, catVars, lkVars, pureVars>>

----------------------------------------------------------------------------
(* common/locking.py: the FileLock interface *)

\* the monotonic clock is followed up to this many poll intervals
MaxNow == 3

\* FileLock instances on one path
Locks == {1, 2}

\* finite timeouts passed to acquire, in poll intervals (line 67)
LockTimeouts == {0, 1}

\* acquire, line 82: monotonic() > deadline
Expired_Never(now, deadline) == FALSE
Expired(now, deadline) == now > deadline

\* time.sleep / the passing of time: the clock moves on
Later(now) == IF now < MaxNow THEN now + 1 ELSE now

LockInit ==
    /\ lkFs = [lock |-> NoFile]
    /\ lkFd = [i \in Locks |-> FALSE]
    /\ lkPc = [i \in Locks |-> "idle"]
    /\ lkDeadline = [i \in Locks |-> 0]
    /\ lkRaised = [i \in Locks |-> FALSE]
    /\ lkNow = 0

\* acquire, lines 64-74: the deadline is fixed once, from the clock
LockAcquireCall(i) ==
    /\ lkPc[i] = "idle"
    /\ \E t \in LockTimeouts :
          /\ lkNow + t < MaxNow
          /\ lkDeadline' = [lkDeadline EXCEPT ![i] = lkNow + t]
    /\ lkPc' = [lkPc EXCEPT ![i] = "open"]
    /\ lkRaised' = [lkRaised EXCEPT ![i] = FALSE]
    /\ UNCHANGED <<lkFs, lkFd, lkNow>>

\* acquire, lines 78-80: os.open(O_CREAT | O_EXCL) creates the sentinel
LockCreate(i) ==
    /\ lkPc[i] = "open"
    /\ CanCreate(lkFs, "csv")
    /\ lkFs' = [lkFs EXCEPT ![lock_path("csv")] = File(<<i>>)]
    /\ lkFd' = [lkFd EXCEPT ![i] = TRUE]
    /\ lkPc' = [lkPc EXCEPT ![i] = "idle"]
    /\ UNCHANGED <<lkDeadline, lkRaised, lkNow>>

\* acquire, line 81: FileExistsError
LockExists(i) ==
    /\ lkPc[i] = "open"
    /\ ~CanCreate(lkFs, "csv")
    /\ lkPc' = [lkPc EXCEPT ![i] = "check"]
    /\ UNCHANGED <<lkFs, lkFd, lkDeadline, lkRaised, lkNow>>

\* acquire, lines 82-83: past the deadline, Timeout is raised
LockTimeout(i) ==
    /\ lkPc[i] = "check"
    /\ Expired(lkNow, lkDeadline[i])
    /\ lkFs' = OnAcquireTimeout(lkFs, "csv")
    /\ lkRaised' = [lkRaised EXCEPT ![i] = TRUE]
    /\ lkPc' = [lkPc EXCEPT ![i] = "idle"]
    /\ UNCHANGED <<lkFd, lkDeadline, lkNow>>

\* acquire, line 84: time.sleep(interval), then the loop tries again
LockSleep(i) ==
    /\ lkPc[i] = "check"
    /\ ~Expired(lkNow, lkDeadline[i])
    /\ lkNow' = Later(lkNow)
    /\ lkPc' = [lkPc EXCEPT ![i] = "open"]
    /\ UNCHANGED <<lkFs, lkFd, lkDeadline, lkRaised>>

\* release, lines 87-96: close the descriptor if there is one, unlink the path
LockRelease(i) ==
    /\ lkPc[i] = "idle"
    /\ lkFd' = [lkFd EXCEPT ![i] = FALSE]
    /\ lkFs' = release(lkFs, "csv")
    /\ UNCHANGED <<lkPc, lkDeadline, lkRaised, lkNow>>

\* time passes
LockTick ==
    /\ lkNow < MaxNow
    /\ lkNow' = Later(lkNow)
    /\ UNCHANGED <<lkFs, lkFd, lkPc, lkDeadline, lkRaised>>

\* the steps of a running acquire()
LockStep(i) ==
    LockCreate(i) \/ LockExists(i) \/ LockTimeout(i) \/ LockSleep(i)

LockNext ==
    \/ \E i \in Locks : LockAcquireCall(i) /\ UNCHANGED <<tableVars, wsVars, catVars, snapVars, pureVars>>
    \/ \E i \in Locks : LockCreate(i) /\ UNCHANGED <<tableVars, wsVars, catVars, snapVars, pureVars>>
    \/ \E i \in Locks : LockExists(i) /\ UNCHANGED <<tableVars, wsVars, catVars, snapVars, pureVars>>
    \/ \E i \in Locks : LockTimeout(i) /\ UNCHANGED <<tableVars, wsVars, catVars, snapVars, pureVars>>
    \/ \E i \in Locks : LockSleep(i) /\ UNCHANGED <<tableVars, wsVars, catVars, snapVars, pureVars>>
    \/ \E i \in Locks : LockRelease(i) /\ UNCHANGED <<tableVars, wsVars, catVars, snapVars, pureVars>>
    \/ LockTick /\ UNCHANGED <<tableVars, wsVars, catVars, snapVars, pureVars>>

----------------------------------------------------------------------------
(* Functions of one argument, called on every input of a bounded set *)

\* length of the strings the functions are called with
MaxLen == 3

\* no call is being looked at
PureInit ==
    /\ pureArg = <<>>
    /\ pureRes = [done |-> FALSE]

RECURSIVE StringsOver(_, _)
StringsOver(alphabet, len) ==
    IF len = 0 THEN {<<>>}
    ELSE LET shorter == StringsOver(alphabet, len - 1)
         IN shorter \cup {<<ch>> \o str : ch \in alphabet, str \in shorter}

\* the store apart from the function called
QuietInit ==
    TableInit({NoFile}) /\ WsInit /\ CatInit /\ SnapInit /\ LockInit

\* slugify inputs: strings over "a", "A", "0", " ", "-", "_"
SlugInputs == StringsOver({97, 65, 48, 32, 45, 95}, MaxLen)

SlugInit ==
    /\ pureArg \in SlugInputs
    /\ pureRes = [done |-> FALSE]

\* slugify(value), and slugify of what it returned
SlugifyCall ==
    /\ ~pureRes.done
    /\ pureRes' = [done |-> TRUE, out |-> slugify(pureArg),
                   again |-> slugify(slugify(pureArg))]
    /\ UNCHANGED pureArg

SlugNext ==
    \/ SlugifyCall /\ UNCHANGED <<tableVars, wsVars, catVars, snapVars, lkVars>>

\* upload_catalogs.py main as a function of the catalog on disk and the
\* upload: the catalogs a first upload of one row leaves, and any upload
MergeFiles ==
    {<<>>} \cup
    {SaveCatalogTable(<<>>, AcceptedRows(v, k, b)) :
        v \in Vendors, k \in UploadKinds, b \in [1..1 -> UploadRows]}

\* Uploads that also hold rows without an item number or a price date
MergeRows ==
    UploadRows
    \cup {[item |-> <<>>, ts |-> ParseDay(2), cost |-> c] : c \in UploadCosts}
    \cup {[item |-> <<55>>, ts |-> NaT, cost |-> c] : c \in {0, 10}}
MergeBatches == UNION {[1..n -> MergeRows] : n \in 1..MaxBatch}

MergeInit ==
    /\ pureArg \in [file : MergeFiles, vendor : Vendors, kind : UploadKinds,
                    batch : MergeBatches]
    /\ pureRes = [done |-> FALSE]

\* upload_catalogs.py main, lines 125-220: the upload is mapped, filtered,
\* merged and saved
MergeCall ==
    LET accepted == AcceptedRows(pureArg.vendor, pureArg.kind, pureArg.batch)
    IN /\ ~pureRes.done
       /\ pureRes' = [done |-> TRUE,
                      logged |-> LoggedIssues(pureArg.batch),
                      saved |-> IF accepted = <<>> THEN pureArg.file
                                ELSE SaveCatalogTable(pureArg.file, accepted)]
       /\ UNCHANGED pureArg

MergeNext ==
    \/ MergeCall /\ UNCHANGED <<tableVars, wsVars, catVars, snapVars, lkVars>>

\* read_table (db.py:123-133) as a function of the bytes of the file.
\* pd.read_csv tokenizes with the states of its C parser: a quote opens a
\* quoted field only at the start of a field, blank lines are skipped, a
\* short line is padded, a line after the first data line with more fields
\* than expected is a bad line, and the end of the file inside a quoted
\* field is an error.
MaxChars == 7
CsvChars == {97, 44, 34, 10}
CsvTexts == StringsOver(CsvChars, MaxChars)

EndField(t) == [t EXCEPT !.fields = @ + 1]
EndLine(t) ==
    [t EXCEPT !.state = "START_RECORD",
              !.fields = 0,
              !.lines = @ + 1,
              !.ex = IF t.lines = 0 \/ (t.lines = 1 /\ t.fields > t.ex)
                     THEN t.fields ELSE @,
              !.bad = @ \/ (t.lines >= 2 /\ t.fields > t.ex)]

TokenizeChar(t, c) ==
    IF t.state = "START_RECORD" /\ c = 10 THEN t
    ELSE IF t.state \in {"START_RECORD", "START_FIELD"} THEN
        IF c = 10 THEN EndLine(EndField(t))
        ELSE IF c = 34 THEN [t EXCEPT !.state = "IN_QUOTED_FIELD"]
        ELSE IF c = 44 THEN [EndField(t) EXCEPT !.state = "START_FIELD"]
        ELSE [t EXCEPT !.state = "IN_FIELD"]
    ELSE IF t.state = "IN_FIELD" THEN
        IF c = 10 THEN EndLine(EndField(t))
        ELSE IF c = 44 THEN [EndField(t) EXCEPT !.state = "START_FIELD"]
        ELSE t
    ELSE IF t.state = "IN_QUOTED_FIELD" THEN
        IF c = 34 THEN [t EXCEPT !.state = "QUOTE_IN_QUOTED_FIELD"] ELSE t
    ELSE \* QUOTE_IN_QUOTED_FIELD
        IF c = 34 THEN [t EXCEPT !.state = "IN_QUOTED_FIELD"]
        ELSE IF c = 44 THEN [EndField(t) EXCEPT !.state = "START_FIELD"]
        ELSE IF c = 10 THEN EndLine(EndField(t))
        ELSE [t EXCEPT !.state = "IN_FIELD"]

RECURSIVE Tokenize(_, _, _)
Tokenize(text, i, t) ==
    IF i > Len(text) THEN t ELSE Tokenize(text, i + 1, TokenizeChar(t, text[i]))

\* pd.read_csv: the exception it raises, or "frame"
read_csv(text) ==
    LET t == Tokenize(text, 1, [state |-> "START_RECORD", fields |-> 0,
                                lines |-> 0, ex |-> 0, bad |-> FALSE])
        eof == IF t.state \in {"START_RECORD", "IN_QUOTED_FIELD"} THEN t
               ELSE EndLine(EndField(t))
    IN IF t.state = "IN_QUOTED_FIELD" \/ eof.bad THEN "ParserError"
       ELSE IF eof.lines = 0 THEN "EmptyDataError"
       ELSE "frame"

ReadInit ==
    /\ pureArg \in {[exists |-> FALSE, text |-> <<>>]}
                   \cup [exists : {TRUE}, text : CsvTexts]
    /\ pureRes = [done |-> FALSE]

\* db.py read_table, lines 123-133
ReadTableCall ==
    /\ ~pureRes.done
    /\ pureRes' =
          IF ~pureArg.exists
          THEN [done |-> TRUE, raised |-> FALSE, empty |-> TRUE]
          ELSE IF read_csv(pureArg.text) = "EmptyDataError"
          THEN [done |-> TRUE, raised |-> FALSE, empty |-> TRUE]
          ELSE [done |-> TRUE, raised |-> read_csv(pureArg.text) # "frame",
                empty |-> FALSE]
    /\ UNCHANGED pureArg

ReadNext ==
    \/ ReadTableCall /\ UNCHANGED <<tableVars, wsVars, catVars, snapVars, lkVars>>

\* db._resolve (lines 76-92) on paths as lists of segments.  A logical name
\* is a string or Path: absolute or not, with segments "..", "a", "a.csv",
\* "data" and "srv"; the process runs in /srv and DATA_ROOT is Path("data").
MaxSegs == 3
Segments == {"..", "a", "a.csv", "data", "srv"}
TableNames ==
    [absolute : BOOLEAN, segs : UNION {[1..n -> Segments] : n \in 1..MaxSegs}]
WorkingDir == [absolute |-> TRUE, segs |-> <<"srv">>]
DATA_ROOT == [absolute |-> FALSE, segs |-> <<"data">>]

\* f"{slug}.csv" unless slug.endswith(".csv"), on the last segment
WithCsv(seg) ==
    CASE seg = "a.csv" -> "a.csv"
      [] seg = "a"     -> "a.csv"
      [] seg = ".."    -> "...csv"
      [] seg = "data"  -> "data.csv"
      [] seg = "srv"   -> "srv.csv"

\* Path.__truediv__: an absolute right operand replaces the left one
JoinPath(left, right) ==
    IF right.absolute THEN right
    ELSE [absolute |-> left.absolute, segs |-> left.segs \o right.segs]

\* lines 79-90: the suffix is added, a relative candidate is put under
\* DATA_ROOT, an absolute one is taken as it is
resolve(path) ==
    LET n == Len(path.segs)
        candidate == [path EXCEPT !.segs[n] = WithCsv(@)]
    IN IF ~candidate.absolute THEN JoinPath(DATA_ROOT, candidate) ELSE candidate

\* The file the operating system opens for a path: relative paths start at
\* the working directory, ".." leaves a directory (and stays at "/")
RECURSIVE Collapse(_, _)
Collapse(done, rest) ==
    IF rest = <<>> THEN done
    ELSE IF Head(rest) = ".."
         THEN Collapse(IF done = <<>> THEN <<>> ELSE SubSeq(done, 1, Len(done) - 1),
                       Tail(rest))
         ELSE Collapse(Append(done, Head(rest)), Tail(rest))
RealPath(path) == Collapse(<<>>, JoinPath(WorkingDir, path).segs)

UnderRoot(path) ==
    LET root == RealPath(DATA_ROOT)
        file == RealPath(path)
    IN Len(file) > Len(root) /\ SubSeq(file, 1, Len(root)) = root

ResolveInit ==
    /\ pureArg \in [op : {"read", "write", "append"}, path : TableNames]
    /\ pureRes = [done |-> FALSE]

\* read_table, write_table, append_table (lines 127, 139, 149): the path is
\* resolved, never rejected, and the file it names is opened
TableCall ==
    /\ ~pureRes.done
    /\ pureRes' = [done |-> TRUE, rejected |-> FALSE,
                   touched |-> resolve(pureArg.path)]
    /\ UNCHANGED pureArg

ResolveNext ==
    \/ TableCall /\ UNCHANGED <<tableVars, wsVars, catVars, snapVars, lkVars>>

\* _normalize_feature and _normalize_workspace on short names over "a",
\* "A", " ", "_" and on names that reach the cap of line 43: 59 letters
\* followed by blanks and letters
NameInputs ==
    StringsOver({97, 65, 32, 95}, MaxLen)
    \cup {[i \in 1..(WorkspaceNameCap - 1) |-> 97] \o tail :
             tail \in StringsOver({32, 98}, MaxLen)}

NormalizeInit ==
    /\ pureArg \in [kind : {"feature", "workspace"}, text : NameInputs]
    /\ pureRes = [done |-> FALSE]

\* The name a call returns or stores, and the name the next call makes of it
NormalizeCall ==
    LET Normal(text) == IF pureArg.kind = "feature" THEN normalize_feature(text)
                        ELSE normalize_workspace(text)
    IN /\ ~pureRes.done
       /\ pureRes' = [done |-> TRUE, out |-> Normal(pureArg.text),
                      again |-> Normal(Normal(pureArg.text))]
       /\ UNCHANGED pureArg

NormalizeNext ==
    \/ NormalizeCall /\ UNCHANGED <<tableVars, wsVars, catVars, snapVars, lkVars>>

----------------------------------------------------------------------------
(* Specifications *)

\* The table store: sessions of two processes write, append, read and crash
Init == TableInit(InitialTables) /\ WsInit /\ CatInit /\ SnapInit /\ LockInit /\ PureInit

Spec == Init /\ [][TableNext]_vars

\* The workspace document: two sessions call the workspace operations
InitWs == TableInit({NoFile}) /\ WsInit /\ CatInit /\ SnapInit /\ LockInit /\ PureInit

SpecWs == InitWs /\ [][WsNext]_vars

\* The workspace store used by one session, the document absent or corrupt
\* at the start
InitWsSolo == TableInit({NoFile}) /\ WsInitWith({NoDoc, CorruptDoc}) /\ CatInit /\ SnapInit /\ LockInit /\ PureInit

SpecWsSolo == InitWsSolo /\ [][WsSoloNext]_vars

\* Two sessions at work on a document that may be corrupt at the start
InitWsAny == TableInit({NoFile}) /\ WsInitWith({NoDoc, CorruptDoc}) /\ CatInit /\ SnapInit /\ LockInit /\ PureInit

SpecWsAny == InitWsAny /\ [][WsNext]_vars

\* The catalog merge: uploads are saved one after another
SpecCat == InitWs /\ [][CatNext]_vars

SpecCommit == InitWs /\ [][CommitNext]_vars

SpecSnap == InitWs /\ [][SnapNext]_vars

SpecSnapAll == InitWs /\ [][SnapAllNext]_vars

InitSlug == QuietInit /\ SlugInit

SpecSlug == InitSlug /\ [][SlugNext]_vars

InitMerge == QuietInit /\ MergeInit

SpecMerge == InitMerge /\ [][MergeNext]_vars

InitRead == QuietInit /\ ReadInit

SpecRead == InitRead /\ [][ReadNext]_vars

InitResolve == QuietInit /\ ResolveInit

SpecResolve == InitResolve /\ [][ResolveNext]_vars

InitNormalize == QuietInit /\ NormalizeInit

SpecNormalize == InitNormalize /\ [][NormalizeNext]_vars

SpecLock == InitWs /\ [][LockNext]_vars

\* A running acquire() goes on: the interpreter does not stop inside the loop
SpecLockFair ==
    InitWs /\ [][LockNext]_vars /\ \A i \in Locks : WF_lkVars(LockStep(i))

----------------------------------------------------------------------------
(* Claims about the table store, checked under Spec *)

\* C1: while a writer is anywhere between taking the lock and releasing it,
\* or has crashed there, the table on disk is the complete content from
\* before the write or the complete content the write persists - never a
\* partial table.
C1_AtomicUnderInterruption ==
    \A c \in Ctxs :
        (fs["lock"] = File(<<c>>) /\ pc[c] \in InCS \cup {"crashed"})
            => fs["csv"] \in {pre[c], File(frame[c])}

\* C1 witness: a writer crashed while its temporary file was half written,
\* a session of another process then read the table from disk and got the
\* complete content from before the write.
C1_Witness ==
    \E c \in Ctxs, r \in Ctxs :
        /\ pc[c] = "crashed" /\ fs["lock"] = File(<<c>>)
        /\ fs["tmp"].exists
        /\ Len(fs["tmp"].rows) > 0 /\ Len(fs["tmp"].rows) < Len(frame[c])
        /\ ProcOf(r) # ProcOf(c) /\ pc[r] = "r_store"
        /\ val[r].rows = pre[c].rows /\ fs["csv"] = pre[c]

\* C2: a call that times out on the lock changes no file (table and the
\* holder's sentinel stay); when serialisation raises, the table is what it
\* was when the lock was taken, and unwinding does not change it.
C2_FailedWriteLeavesTable ==
    [][\A c \in Ctxs :
          /\ (pc[c] = "acquire" /\ pc'[c] = "timeout") => fs' = fs
          /\ (pc'[c] = "unwind") => fs'["csv"] = pre'[c]
          /\ (pc[c] = "unwind" /\ pc'[c] = "failed") => fs'["csv"] = pre[c]]_vars

\* C2 witness: one call has timed out while another, holding the sentinel,
\* failed in serialisation after writing part of the temporary file.
C2_Witness ==
    \E c \in Ctxs, d \in Ctxs :
        /\ pc[c] = "timeout" /\ pc[d] = "unwind"
        /\ fs["lock"] = File(<<d>>)
        /\ fs["tmp"].exists /\ fs["tmp"].rows # <<>>
        /\ fs["csv"] = pre[d]

\* C3: at most one call is inside its critical section, it is the one whose
\* sentinel is on disk, and what a writer renames over the table is exactly
\* its own frame.
C3_WriteSerialization ==
    /\ Cardinality({c \in Ctxs : pc[c] \in InCS}) <= 1
    /\ \A c \in Ctxs : pc[c] \in InCS => fs["lock"] = File(<<c>>)
    /\ \A c \in Ctxs : pc[c] = "release" => fs["csv"] = File(frame[c])

\* C3 witness: one writer is writing its temporary file while another call
\* is waiting for the same lock.
C3_Witness ==
    \E c \in Ctxs, d \in Ctxs :
        c # d /\ pc[c] = "writing" /\ pc[d] = "acquire" /\ fs["tmp"].rows # <<>>

C10_LockReleasedOnExit ==
    \A c \in Ctxs : fs["lock"] = File(<<c>>) => pc[c] \in InCS \cup {"crashed"}

\* C10 witness: a call left its critical section by an exception and the
\* lock is free.
C10_Witness ==
    \E c \in Ctxs : pc[c] = "failed" /\ ~fs["lock"].exists /\ fs["tmp"].exists

----------------------------------------------------------------------------
(* Claims about the workspace document, checked under SpecWs *)

\* C5: when two sessions have each saved a different workspace, neither call
\* having met a lock timeout, and both calls have returned, the document holds
\* both workspaces with the payloads saved.
C5_ConcurrentSavesBothPresent ==
    \A s \in WsSessions, t \in WsSessions :
        (/\ s # t
         /\ wsPc[s] = "done" /\ wsPc[t] = "done"
         /\ wsArg[s].op = "save" /\ wsArg[t].op = "save"
         /\ wsArg[s].name # wsArg[t].name
         /\ ~wsArg[s].timedout /\ ~wsArg[t].timedout)
        => /\ wsFs["json"].exists
           /\ \A u \in {s, t} :
                /\ wsArg[u].name \in DOMAIN Bucket(wsFs["json"].doc, WsFeature)
                /\ wsFs["json"].doc[WsFeature][wsArg[u].name] = json_copy(wsArg[u].payload)

----------------------------------------------------------------------------
(* Claims about the catalog merge *)

\* C7: the persisted catalog holds at most one row per natural key
\* (vendor case-insensitive, item_number).
C7_CatalogKeyUnique ==
    \A i \in 1..Len(catFile), j \in 1..Len(catFile) :
        NaturalKey(catFile[i]) = NaturalKey(catFile[j]) => i = j

\* C8: after a merge, every natural key of the existing and the accepted
\* incoming rows has exactly one row in the catalog, and that row carries the
\* greatest price date (day) among the existing and incoming rows of the key.
C8_LatestPriceWins ==
    uploads > 0 =>
        \A e \in catLatest :
            /\ Cardinality(RowsOfKey(catFile, e[1])) = 1
            /\ \A r \in RowsOfKey(catFile, e[1]) : catFile[r].day = e[2]

\* C9: saving the same upload batch a second time leaves the persisted
\* catalog as the first save left it.
C9_MergeIdempotent == uploads > 0 => catAgain = catFile

----------------------------------------------------------------------------
(* Further claims about the table store, checked under Spec *)

\* C11: a lock does not outlive the crash of its holder: when the process of
\* the call that created the sentinel has crashed, the sentinel is gone, so
\* that a later write by another process can take the lock.
C11_CrashedHolderFreesLock ==
    \A c \in Ctxs : pc[c] = "crashed" => fs[lock_path("csv")] # File(<<c>>)

----------------------------------------------------------------------------
(* Further claims about the workspace document *)

SavedThenLoaded ==
    /\ wsPc[1] = "done" /\ wsArg[1].api = "load" /\ ~wsArg[1].raised
    /\ wsPrev.api = "save" /\ ~wsPrev.raised
    /\ wsPrev.feature = wsArg[1].feature /\ wsPrev.name = wsArg[1].name

LoadedMissing(call) ==
    call.api = "load" /\ call.op = "ensure" /\ ~call.raised

\* C15: load_workspace of a workspace that is not stored returns the supplied
\* default ({} when there is none) without raising and stores it under the
\* name; a following list_workspaces contains the name and a following load
\* of the name returns the same value.
C15_LoadCreatesWithDefault ==
    /\ wsPc[1] = "done" /\ LoadedMissing(wsArg[1]) =>
          LET dflt == IF wsArg[1].payload = PNone THEN PEmpty ELSE wsArg[1].payload
              doc == wsFs["json"].doc
          IN /\ wsArg[1].ret = dflt
             /\ wsFs["json"].exists /\ wsFs["json"].json
             /\ wsArg[1].feature \in DOMAIN doc
             /\ wsArg[1].asked \in DOMAIN doc[wsArg[1].feature]
             /\ doc[wsArg[1].feature][wsArg[1].asked] = dflt
    /\ wsPc[1] = "done" /\ LoadedMissing(wsPrev) /\ ~wsArg[1].raised =>
          /\ wsArg[1].api = "list" =>
                \E i \in DOMAIN wsArg[1].names : wsArg[1].names[i] = wsPrev.asked
          /\ wsArg[1].api = "load" /\ wsArg[1].asked = wsPrev.asked =>
                wsArg[1].ret = wsPrev.ret

\* C17: list_workspaces returns exactly the names stored under the
\* normalised feature key, each once, in case-insensitive order, and [] when
\* the feature has none.
C17_ListSortedCaseInsensitive ==
    wsPc[1] = "done" /\ wsArg[1].api = "list" /\ ~wsArg[1].raised =>
        LET names == wsArg[1].names
        IN /\ {names[i] : i \in DOMAIN names}
                = DOMAIN Bucket(wsFs["json"].doc, wsArg[1].feature)
           /\ \A i, j \in DOMAIN names :
                i < j => LexLess(LowerStr(names[i]), LowerStr(names[j]))

\* C17 witness: with 'Beta Team' and ' alpha  shift ' stored, the list is
\* ['alpha shift', 'Beta Team'].
C17_Witness ==
    /\ wsPc[1] = "done" /\ wsArg[1].api = "list"
    /\ wsArg[1].names =
          << <<97, 108, 112, 104, 97, 32, 115, 104, 105, 102, 116>>,
             <<66, 101, 116, 97, 32, 84, 101, 97, 109>> >>

\* C18: delete_workspace changes the document only by taking the named
\* workspace out of it, dropping the feature key with its last workspace: a
\* delete of a name that is not stored writes nothing, and after a delete the
\* name is not stored and no feature key is left without workspaces.
C18_DeleteRemovesOnlyNamed ==
    /\ [](wsPc[1] = "done" /\ wsArg[1].api = "delete" /\ ~wsArg[1].raised =>
            LET doc == wsFs["json"].doc
            IN /\ wsArg[1].name \notin DOMAIN Bucket(doc, wsArg[1].feature)
               /\ \A f \in DOMAIN doc : DOMAIN doc[f] # {})
    /\ [][wsArg[1].api = "delete" /\ wsFs'["json"] # wsFs["json"] =>
            LET doc == wsFs["json"].doc
                f == wsArg[1].feature
                n == wsArg[1].name
            IN /\ wsFs["json"].json
               /\ n \in DOMAIN Bucket(doc, f)
               /\ wsFs'["json"].json /\ wsFs'["json"].exists
               /\ wsFs'["json"].doc =
                     IF DOMAIN doc[f] = {n}
                     THEN [g \in DOMAIN doc \ {f} |-> doc[g]]
                     ELSE [g \in DOMAIN doc |->
                             IF g = f THEN [m \in DOMAIN doc[f] \ {n} |-> doc[f][m]]
                             ELSE doc[g]]]_vars

\* C18 witness: the delete of one of two stored workspaces has returned and
\* the other one is still stored.
C18_Witness ==
    /\ wsPc[1] = "done" /\ wsArg[1].api = "delete"
    /\ wsArg[1].feature \in DOMAIN wsFs["json"].doc
    /\ wsArg[1].name \notin DOMAIN wsFs["json"].doc[wsArg[1].feature]

\* C19: a workspace call whose feature or workspace name is empty after
\* trimming raises ValueError at once: it never reads the document nor takes
\* the lock, and the files are as before; a call that goes on has a feature
\* key and a name that are not blank.
C19_BlankNamesRaiseFirst ==
    /\ [](/\ wsArg[1].raised =>
                wsPc[1] = "done" /\ wsStore[1] = EmptyMap
          /\ wsPc[1] # "idle" /\ ~wsArg[1].raised =>
                /\ \E i \in DOMAIN wsArg[1].feature : wsArg[1].feature[i] # 32
                /\ wsArg[1].api # "list" =>
                      \E i \in DOMAIN wsArg[1].name : wsArg[1].name[i] # 32)
    /\ [][wsArg'[1].raised => wsFs' = wsFs /\ wsPc[1] = "idle"]_vars

\* C19 witness: a save with a blank workspace name has raised while the
\* document holds a workspace.
C19_Witness ==
    /\ wsPc[1] = "done" /\ wsArg[1].raised /\ wsArg[1].api = "save"
    /\ wsArg[1].feature # <<>>
    /\ wsFs["json"].exists /\ wsFs["json"].json

----------------------------------------------------------------------------
(* Claims about snapshots, checked under SpecSnap and SpecSnapAll *)

\* No call into the snapshot directory is running
SnapIdle == \A s \in SnapSessions : snapPc[s] = "idle"

\* The snapshot files of the directory
SnapshotFiles == {n \in Names : n.stamped /\ snapFs[n]["csv"].exists}

\* C13: a snapshot file, once written, is never modified or replaced: every
\* later snapshot() writes another file, so that between calls the directory
\* holds as many snapshot files as snapshot() calls have returned.
C13_SnapshotsImmutable ==
    /\ [](SnapIdle => Cardinality(SnapshotFiles) = snapHist.ok)
    /\ [][\A n \in Names :
            snapFs[n]["csv"].exists => snapFs'[n]["csv"] = snapFs[n]["csv"]]_vars

C20_MutationsGuarded ==
    [][\A n \in Names :
        snapFs'[n]["csv"] # snapFs[n]["csv"] =>
            \E s \in SnapSessions :
                /\ snapPc[s] = "rename" /\ snapArg[s].name = n
                /\ snapFs[n][lock_path("csv")] = File(<<s>>)
                /\ snapFs'[n]["csv"] = snapFs[n][temp_path("csv")]]_vars

----------------------------------------------------------------------------
(* Claims about the FileLock interface, checked under SpecLock *)

\* C21: with a finite timeout every acquire() ends: it creates the sentinel
\* and returns, or raises Timeout once the deadline has passed, also when
\* the holder never releases; and it raises only past its deadline.
C21_AcquireTerminates ==
    /\ \A i \in Locks : lkPc[i] # "idle" ~> lkPc[i] = "idle"
    /\ [][\A i \in Locks :
            lkRaised'[i] /\ ~lkRaised[i] =>
                lkNow > lkDeadline[i] /\ lkPc'[i] = "idle" /\ lkFs' = lkFs]_vars

\* C21 witness: an acquire() has raised Timeout while the other instance
\* still holds the lock.
C21_Witness ==
    \E i, j \in Locks :
        /\ lkRaised[i] /\ lkPc[i] = "idle" /\ ~lkFd[i]
        /\ lkFd[j] /\ lkFs[lock_path("csv")] = File(<<j>>)

\* C30: whatever acquire and release calls the instances make, at most one
\* instance has is_locked true and the sentinel exists whenever one has.
C30_ReleaseByNonHolderHarmless ==
    /\ \A i, j \in Locks : lkFd[i] /\ lkFd[j] => i = j
    /\ \A i \in Locks : lkFd[i] => lkFs[lock_path("csv")].exists

----------------------------------------------------------------------------
(* Claims about functions, checked on every input of a bounded set *)

C23_TieKeepsLatestUpload ==
    pureRes.done =>
        LET accepted == AcceptedRows(pureArg.vendor, pureArg.kind, pureArg.batch)
            existing == IF pureArg.file = <<>> THEN <<>>
                        ELSE normalize_items(ReadCsv(pureArg.file))
            SameKey(x, y) == x.vendor = y.vendor /\ x.item = y.item
        IN \A i \in DOMAIN accepted :
              ( /\ \A j \in DOMAIN accepted :
                      SameKey(accepted[j], accepted[i]) =>
                          \/ accepted[j].ts < accepted[i].ts
                          \/ accepted[j].ts = accepted[i].ts /\ j <= i
                /\ \A e \in DOMAIN existing :
                      SameKey(existing[e], accepted[i]) =>
                          existing[e].ts <= accepted[i].ts
                /\ \/ \E e \in DOMAIN existing :
                         /\ SameKey(existing[e], accepted[i])
                         /\ existing[e].ts = accepted[i].ts
                   \/ \E j \in 1..(i - 1) :
                         /\ SameKey(accepted[j], accepted[i])
                         /\ accepted[j].ts = accepted[i].ts )
              => \A r \in DOMAIN pureRes.saved :
                    ( /\ pureRes.saved[r].vendor = ToText(accepted[i].vendor)
                      /\ pureRes.saved[r].item = ToText(accepted[i].item)
                      /\ pureRes.saved[r].day = DayOf(accepted[i].ts) )
                    => pureRes.saved[r].cost = accepted[i].cost

\* C24: an uploaded row without an item number, or without a valid positive
\* price (or price date), is logged with exactly one exception record and
\* does not reach the merged catalog.
C24_InvalidRowsRejectedAndLogged ==
    pureRes.done =>
        \A i \in DOMAIN pureArg.batch :
            ( \/ pureArg.batch[i].item = <<>>
              \/ pureArg.batch[i].ts = NaT
              \/ pureArg.batch[i].cost <= 0 )
            => /\ Cardinality({k \in DOMAIN pureRes.logged :
                                  pureRes.logged[k].row = i}) = 1
               /\ \A r \in DOMAIN pureRes.saved :
                      pureRes.saved[r].item # IndexText(i - 1)

\* C25: read_table of a file that exists but does not parse (zero-length,
\* truncated or malformed) returns an empty table and does not raise.
C25_UnparsableReadsEmpty ==
    (pureRes.done /\ pureArg.exists /\ read_csv(pureArg.text) # "frame")
        => ~pureRes.raised /\ pureRes.empty

C27_TouchesOnlyUnderRoot ==
    pureRes.done => pureRes.rejected \/ UnderRoot(pureRes.touched)

\* C28: a save, ensure, load or delete call changes or removes no workspace
\* other than the one it addresses, also when its read of the document
\* timed out on the lock while other workspaces were stored.
C28_OtherWorkspacesKept ==
    [][\A s \in WsSessions :
          ( /\ wsArg[s].api \in {"save", "ensure", "load", "delete"}
            /\ wsArg[s].degraded /\ wsArg[s].timedout
            /\ wsPc'[s] # wsPc[s] )
          => LET old == LoadDoc(wsFs["json"])
                 new == LoadDoc(wsFs'["json"])
             IN \A f \in DOMAIN old : \A n \in DOMAIN old[f] :
                   <<f, n>> # <<wsArg[s].feature, wsArg[s].name>>
                   => /\ n \in DOMAIN Bucket(new, f)
                      /\ new[f][n] = old[f][n]]_vars

\* C29: normalising a normalised feature or workspace name returns it
\* unchanged, also for names longer than the cap that are cut next to a blank.
C29_NormaliseIdempotent ==
    pureRes.done => pureRes.again = pureRes.out

====
